---- MODULE Spec2Model ----
(***************************************************************************)
(* Voice lifecycle of Synth (src/src/synth.rs) as driven through Player    *)
(* (src/src/playback.rs), and the tick clock of Player::frame.             *)
(*                                                                         *)
(* Numbers are integers: pitches and bends are whole semitones, cell       *)
(* values (pressure, modulation depth) are 0 or 1, times are whole units;  *)
(* the tempo is an f32.                                                    *)
(***************************************************************************)
EXTENDS Integers, Sequences, FiniteSets, TLC

\* ------------------------------------------------------------- bounds
\* Total number of Voice::new calls (subgraphs pushed to the sequencer).
MaxVoices == 2

\* Largest frame time, in time units, and the tick at which the clock is cut.
MaxDt == 5
MaxTick == 12

\* The dispatches of one event since play_from (passes through a loop).
MaxCount == 2
MaxOscs == 3
MaxEnvs == 2
MaxMods == 2

\* The tracks of a module, and the edits on its undo stack.
MaxTracks == 4
MaxEdits == 3

\* The shifts of rows on the undo stack.
MaxShifts == 1

\* ------------------------------------------------------------- domains
Origins == {"Keyboard", "Midi", "Pattern"}
Channels == {0, 1}
PlayModes == {"Poly", "Mono", "SingleTrigger"}
Pitches == {60, 62}
Bends == {0, 1}
Depths == {0, 1}
Releases == {1, 2}
\* Player.synths holds one Synth per index of Tracks; the track arguments
\* handed to Player also name an index that has no Synth.
Tracks == {0}
TrackArgs == {0, 1}

\* Key { origin, channel, key }
Key(o, c, k) == [origin |-> o, channel |-> c, key |-> k]

Keys ==
    {Key("Midi", 0, 0), Key("Midi", 0, 1), Key("Midi", 1, 0),
     Key("Keyboard", 0, 0), Key("Pattern", 0, 0)}

\* end time of a sequencer event that is never removed (f64::INFINITY)
INFINITY == -1

\* DEFAULT_TEMPO, beats per minute
DEFAULT_TEMPO == 120
\* LOOP_FADEOUT_TIME, seconds
LOOP_FADEOUT_TIME == 10
\* maximum values as written to pattern
MAX_PRESSURE == 9
MAX_MODULATION == 9
\* module::TICKS_PER_BEAT
TICKS_PER_BEAT == 120
\* Time is counted in units of 1/UnitsPerSecond s, chosen so that one tick
\* lasts a whole number of units at every tempo of Tempos (8, 4 and 2).
UnitsPerSecond == 8 * TICKS_PER_BEAT
Tempos == {60, 120, 240}
StartTicks == {0, 3}

VARIABLES
    synths,     \* Player.synths: track index -> Synth
    seq,        \* Player.seq: event id -> the pushed subgraph's shared cells
    playing,    \* Player.playing
    tick,       \* Player.tick
    playtime,   \* Player.playtime, in time units
    tempo,      \* Player.tempo, beats per minute
    looped,     \* Player.looped
    held,       \* history: per synth, Keys with a note_on and no later note_off
    missed,     \* history: the kind of the last call if its lookup found nothing
    start_tick, \* history: the tick at which play() last started the clock
    elapsed,    \* history: the sum of the frame times since then, in time units
    module,     \* the Module handed to Player::frame
    log,        \* history: the events the last frame dispatched, in order
    count,      \* history: per event, its dispatches since play_from
    patch,      \* the Settings under edit: oscs, envs, mod_matrix
    op,         \* history: the last Settings call and its argument
    sample,     \* VoiceVars: the value of each modulation source at one sample
    net,        \* the value at that sample of the Net dsp_component built last
    time_since_loop, \* render: the time rendered since the Player looped
    fx          \* GlobalFX: its settings and the subgraphs installed in its net

clock == <<playing, tick, playtime, tempo, looped, start_tick, elapsed>>
hist == <<held, missed>>
edit == <<patch, op, sample, net>>
song == <<module, log, count, edit, time_since_loop, fx>>
vars == <<synths, seq, hist, clock, song>>

\* ------------------------------------------------------------- helpers
Abs(x) == IF x >= 0 THEN x ELSE 0 - x

\* midi_hz(x) = 440 * 2^((x - 69) / 12), rounded to whole Hz
midi_hz(p) ==
    CASE p = 59 -> 247 [] p = 60 -> 262 [] p = 61 -> 277 [] p = 62 -> 294
      [] p = 63 -> 311 [] p = 64 -> 330 [] p = 65 -> 349 [] OTHER -> 0

\* HashMap::remove / HashMap::insert on the pool
MapRemove(m, k) == [x \in (DOMAIN m) \ {k} |-> m[x]]
MapInsert(m, k, v) == [x \in (DOMAIN m) \cup {k} |-> IF x = k THEN v ELSE m[x]]
EmptyMap == [x \in {} |-> 0]

\* ------------------------------------------------------------- f32
\* A positive f32 is [m, e] with value m * 2^e and a 24-bit significand,
\* 2^23 <= m < 2^24 (subnormals, infinities and NaN do not arise for tempos).
Two23 == 8388608
Two24 == 16777216
Two12 == 4096

RECURSIVE Normalize(_, _)
Normalize(m, e) == IF m < Two23 THEN Normalize(2 * m, e - 1) ELSE [m |-> m, e |-> e]

\* `n as f32` of a positive integer below 2^24 (exact)
F32(n) == Normalize(n, 0)

\* round to nearest, ties to even: q is the truncated significand, rem the
\* remainder out of unit; a carry out of 24 bits renormalises
RoundEven(q, rem, unit, e) ==
    LET up == (2 * rem > unit) \/ (2 * rem = unit /\ q % 2 = 1)
        r  == IF up THEN q + 1 ELSE q
    IN  IF r = Two24 THEN [m |-> Two23, e |-> e + 1] ELSE [m |-> r, e |-> e]

\* the f32 quotient n as f32 / d as f32 of two u8 values, n, d >= 1:
\* the exact quotient n / d, rounded once
RECURSIVE F32DivFrom(_, _, _)
F32DivFrom(num, d, e) ==
    IF num \div d < Two23 THEN F32DivFrom(2 * num, d, e - 1)
    ELSE IF num \div d >= Two24 THEN F32DivFrom(num \div 2, d, e + 1)
    ELSE RoundEven(num \div d, num % d, d, e)

F32Div(n, d) == F32DivFrom(n * Two23, d, -23)

\* the f32 product a * b: the exact 48-bit product of the significands,
\* held as hi * 2^24 + lo, rounded once
F32Mul(a, b) ==
    LET ah == a.m \div Two12
        al == a.m % Two12
        bh == b.m \div Two12
        bl == b.m % Two12
        mid == ah * bl + al * bh
        low == (mid % Two12) * Two12 + al * bl
        hi == ah * bh + mid \div Two12 + low \div Two24
        lo == low % Two24
    IN  IF hi >= Two23
        THEN RoundEven(hi, lo, Two24, a.e + b.e + 24)
        ELSE RoundEven(2 * hi + lo \div Two23, lo % Two23, Two23, a.e + b.e + 23)

\* the position of an f32 among the positive f32 values (as its bit pattern
\* orders them), and whether it is a whole number, and that number
F32Ord(x) == (x.e + 64) * Two23 + (x.m - Two23)
IsWhole(x) == x.e >= 0 \/ (x.e >= -23 /\ x.m % (2 ^ (0 - x.e)) = 0)
Whole(x) == IF x.e >= 0 THEN x.m * (2 ^ x.e) ELSE x.m \div (2 ^ (0 - x.e))

\* ------------------------------------------------------------- Synth
\* Synth::new(): Poly, empty pool, zeroed memories; ADSR::new() release
SynthNew ==
    [play_mode |-> "Poly", voices |-> EmptyMap,
     bend_memory |-> [c \in Channels |-> 0], mod_memory |-> 0,
     release |-> 1]

\* Voice::new: builds the cells, pushes the net; the result carries the
\* Voice kept by the caller and the sequencer with the new event.
VoiceNew(pitch, bend, pressure, modulation, settings, q) ==
    [voice |-> [base_pitch |-> pitch, release_time |-> settings.release,
                event_id |-> Len(q) + 1],
     seq |-> Append(q, [freq |-> midi_hz(pitch + bend), gate |-> 1,
                        pressure |-> pressure, modulation |-> modulation,
                        end |-> INFINITY])]

\* Voice::off: gate.set(0.0); seq.edit_relative(event_id, release_time, ..)
VoiceOff(voice, q) ==
    [q EXCEPT ![voice.event_id].gate = 0,
              ![voice.event_id].end = voice.release_time]

\* mutant: the Mono arm releases nothing
OffAll_None(pool, q) == q

\* voice.off(seq) for every voice of a pool (each voice has its own event)
OffAll(pool, q) ==
    [id \in DOMAIN q |->
        IF \E k \in DOMAIN pool : pool[k].event_id = id
        THEN LET k == CHOOSE k \in DOMAIN pool : pool[k].event_id = id
             IN  VoiceOff(pool[k], q)[id]
        ELSE q[id]]

\* mutant: every play mode inserts a new Voice, as Poly does
note_on_AlwaysInsert(s, q, key, pitch, pressure, pick) ==
    LET bend == IF key.origin = "Midi" THEN s.bend_memory[key.channel] ELSE 0
        fresh == VoiceNew(pitch, bend, pressure, s.mod_memory, s, q)
    IN  [synth |-> [s EXCEPT !.voices = MapInsert(@, key, fresh.voice)],
         seq |-> fresh.seq]

\* Synth::note_on. pick is the entry drain().next() yields in SingleTrigger
\* (HashMap iteration order is unspecified); it is ignored otherwise.
note_on(s, q, key, pitch, pressure, pick) ==
    LET bend == IF key.origin = "Midi" THEN s.bend_memory[key.channel] ELSE 0
        fresh(q1) == VoiceNew(pitch, bend, pressure, s.mod_memory, s, q1)
    IN  CASE s.play_mode = "Poly" ->
                [synth |-> [s EXCEPT !.voices = MapInsert(@, key, fresh(q).voice)],
                 seq |-> fresh(q).seq]
          [] s.play_mode = "Mono" ->
                LET q1 == OffAll(s.voices, q)
                IN  [synth |-> [s EXCEPT !.voices = MapInsert(@, key, fresh(q1).voice)],
                     seq |-> fresh(q1).seq]
          [] s.play_mode = "SingleTrigger" ->
                IF DOMAIN s.voices = {}
                THEN [synth |-> [s EXCEPT !.voices = MapInsert(@, key, fresh(q).voice)],
                      seq |-> fresh(q).seq]
                ELSE LET voice == s.voices[pick]
                     IN  [synth |-> [s EXCEPT !.voices = MapInsert(EmptyMap, key, voice)],
                          seq |-> [q EXCEPT ![voice.event_id].freq = midi_hz(pitch)]]

\* mutant: the entry is looked up, not removed
note_off_KeepsEntry(s, q, key) ==
    IF key \in DOMAIN s.voices
    THEN [synth |-> s, seq |-> VoiceOff(s.voices[key], q)]
    ELSE [synth |-> s, seq |-> q]

\* Synth::note_off
note_off(s, q, key) ==
    IF key \in DOMAIN s.voices
    THEN [synth |-> [s EXCEPT !.voices = MapRemove(@, key)],
          seq |-> VoiceOff(s.voices[key], q)]
    ELSE [synth |-> s, seq |-> q]

\* Synth::pitch_bend
pitch_bend(s, q, channel, bend) ==
    [synth |-> [s EXCEPT !.bend_memory[channel] = bend],
     seq |-> [id \in DOMAIN q |->
        IF \E k \in DOMAIN s.voices :
              /\ s.voices[k].event_id = id
              /\ k.origin = "Midi" /\ k.channel = channel
        THEN LET k == CHOOSE k \in DOMAIN s.voices : s.voices[k].event_id = id
             IN  [q[id] EXCEPT !.freq = midi_hz(s.voices[k].base_pitch + bend)]
        ELSE q[id]]]

\* mutant: an absent Key falls through to the voices of its channel
poly_pressure_FallsThrough(s, q, key, pressure) ==
    [synth |-> s,
     seq |-> [id \in DOMAIN q |->
        IF \E k \in DOMAIN s.voices :
              /\ s.voices[k].event_id = id
              /\ (k = key \/ (key \notin DOMAIN s.voices /\ k.channel = key.channel))
        THEN [q[id] EXCEPT !.pressure = pressure]
        ELSE q[id]]]

\* Synth::poly_pressure
poly_pressure(s, q, key, pressure) ==
    IF key \in DOMAIN s.voices
    THEN [synth |-> s,
          seq |-> [q EXCEPT ![s.voices[key].event_id].pressure = pressure]]
    ELSE [synth |-> s, seq |-> q]

\* Synth::channel_pressure
channel_pressure(s, q, channel, pressure) ==
    [synth |-> s,
     seq |-> [id \in DOMAIN q |->
        IF \E k \in DOMAIN s.voices :
              /\ s.voices[k].event_id = id
              /\ k.origin = "Midi" /\ k.channel = channel
        THEN [q[id] EXCEPT !.pressure = pressure]
        ELSE q[id]]]

\* Synth::modulate(depth): one memory for the whole Synth
modulate(s, q, depth) ==
    [synth |-> [s EXCEPT !.mod_memory = depth],
     seq |-> [id \in DOMAIN q |->
        IF \E k \in DOMAIN s.voices :
              s.voices[k].event_id = id /\ k.origin = "Midi"
        THEN [q[id] EXCEPT !.modulation = depth]
        ELSE q[id]]]

\* Synth::reset_memory: the bend and modulation memories as Synth::new
\* leaves them
reset_memory(s) ==
    [s EXCEPT !.bend_memory = [c \in Channels |-> 0], !.mod_memory = 0]

\* Synth::clear_notes_with_origin: every pooled voice whose Key has the
\* origin is released and leaves the pool
clear_notes_with_origin(s, q, origin) ==
    LET gone == {k \in DOMAIN s.voices : k.origin = origin}
    IN  [synth |-> [s EXCEPT !.voices = [k \in (DOMAIN @) \ gone |-> @[k]]],
         seq |-> OffAll([k \in gone |-> s.voices[k]], q)]

\* ------------------------------------------------------------- clock
\* f64::round: half away from zero, of the rational n / d (d > 0)
Round(n, d) ==
    IF n >= 0 THEN (2 * n + d) \div (2 * d) ELSE 0 - ((2 * (0 - n) + d) \div (2 * d))

\* `as u32` of a float: negative values saturate to 0
AsU32(x) == IF x >= 0 THEN x ELSE 0

\* interval_ticks: (dt * tempo / 60 * TICKS_PER_BEAT).round() as u32
interval_ticks(dt, tp) ==
    AsU32(Round(dt * tp * TICKS_PER_BEAT, 60 * UnitsPerSecond))

\* mutant: the seconds per minute are left out
tick_interval_NoMinute(dtick, tp) ==
    (dtick * UnitsPerSecond) \div (tp * TICKS_PER_BEAT)

\* tick_interval: dtick / tempo * 60 / TICKS_PER_BEAT, in time units (exact
\* for the tempos of Tempos)
tick_interval(dtick, tp) ==
    (dtick * 60 * UnitsPerSecond) \div (tp * TICKS_PER_BEAT)

\* ------------------------------------------------------------- Player
\* self.synths.get_mut(track)
HasSynth(track) == track \in DOMAIN synths

\* Player::note_on
PlayerNoteOn(track, key, pitch, pressure) ==
    IF HasSynth(track)
    THEN \E pick \in IF DOMAIN synths[track].voices = {}
                     THEN {key} ELSE DOMAIN synths[track].voices :
            LET r == note_on(synths[track], seq, key, pitch, pressure, pick)
            IN  /\ Len(r.seq) <= MaxVoices
                /\ synths' = [synths EXCEPT ![track] = r.synth]
                /\ seq' = r.seq
                /\ UNCHANGED clock
    ELSE UNCHANGED <<synths, seq, clock>>

\* Player::note_off
PlayerNoteOff(track, key) ==
    IF HasSynth(track)
    THEN LET r == note_off(synths[track], seq, key)
         IN  /\ synths' = [synths EXCEPT ![track] = r.synth]
             /\ seq' = r.seq
             /\ UNCHANGED clock
    ELSE UNCHANGED <<synths, seq, clock>>

\* Player::pitch_bend
PlayerPitchBend(track, channel, bend) ==
    IF HasSynth(track)
    THEN LET r == pitch_bend(synths[track], seq, channel, bend)
         IN  /\ synths' = [synths EXCEPT ![track] = r.synth]
             /\ seq' = r.seq
             /\ UNCHANGED clock
    ELSE UNCHANGED <<synths, seq, clock>>

\* Player::poly_pressure
PlayerPolyPressure(track, key, pressure) ==
    IF HasSynth(track)
    THEN LET r == poly_pressure(synths[track], seq, key, pressure)
         IN  /\ synths' = [synths EXCEPT ![track] = r.synth]
             /\ seq' = r.seq
             /\ UNCHANGED clock
    ELSE UNCHANGED <<synths, seq, clock>>

\* Player::channel_pressure
PlayerChannelPressure(track, channel, pressure) ==
    IF HasSynth(track)
    THEN LET r == channel_pressure(synths[track], seq, channel, pressure)
         IN  /\ synths' = [synths EXCEPT ![track] = r.synth]
             /\ seq' = r.seq
             /\ UNCHANGED clock
    ELSE UNCHANGED <<synths, seq, clock>>

\* Player::modulate: the channel reaches Player, Synth::modulate takes depth
PlayerModulate(track, channel, depth) ==
    IF HasSynth(track)
    THEN LET r == modulate(synths[track], seq, depth)
         IN  /\ synths' = [synths EXCEPT ![track] = r.synth]
             /\ seq' = r.seq
             /\ UNCHANGED clock
    ELSE UNCHANGED <<synths, seq, clock>>

\* The play mode selector of the patch editor
SetPlayMode(track, m) ==
    /\ HasSynth(track)
    /\ synths' = [synths EXCEPT ![track].play_mode = m]
    /\ UNCHANGED <<seq, clock>>

\* The envelope release slider of the patch editor
SetRelease(track, r) ==
    /\ HasSynth(track)
    /\ synths' = [synths EXCEPT ![track].release = r]
    /\ UNCHANGED <<seq, clock>>

\* ------------------------------------------------------------- Module
\* Event { tick, data }; data is a type with up to two arguments
\* (Pitch(note), Pressure(v), Modulation(v), Tempo(t), RationalTempo(n, d))
Event(t, type, a, b) == [tick |-> t, type |-> type, a |-> a, b |-> b]
Pitch(t, note) == Event(t, "Pitch", note, 0)
NoteOff(t) == Event(t, "NoteOff", 0, 0)
Tempo(t, bpm) == Event(t, "Tempo", bpm, 0)
RationalTempo(t, n, d) == Event(t, "RationalTempo", n, d)
End(t) == Event(t, "End", 0, 0)
Loop(t) == Event(t, "Loop", 0, 0)
Pressure(t, v) == Event(t, "Pressure", v, 0)
StartGlide(t, col) == Event(t, "StartGlide", col, 0)

\* the pattern columns of a channel
NOTE_COLUMN == 0
VEL_COLUMN == 1
MOD_COLUMN == 2
INTERP_COL_FLAG == 128

\* EventData::logical_column: col | INTERP_COL_FLAG for a glide on col < 128
logical_column(e) ==
    CASE e.type = "Pressure" -> VEL_COLUMN
      [] e.type = "Modulation" -> MOD_COLUMN
      [] e.type \in {"StartGlide", "EndGlide", "TickGlide"} -> e.a + INTERP_COL_FLAG
      [] OTHER -> NOTE_COLUMN

\* EventData::spatial_column: logical_column() & !INTERP_COL_FLAG
spatial_column(e) == logical_column(e) % INTERP_COL_FLAG

\* Track { target, channels }; TrackTarget is None, Global, Kit or Patch(i)
Track(target, index, chans) ==
    [target |-> target, index |-> index,
     channels |-> [c \in 0..(Len(chans) - 1) |-> chans[c + 1]]]

\* KitEntry { input_note, patch_index, patch_note }
KitEntry(input_note, patch_index, patch_note) ==
    [input_note |-> input_note, patch_index |-> patch_index,
     patch_note |-> patch_note]

\* Module { kit, patches, tracks, undo_stack, redo_stack, track_history }:
\* the kit entries in storage order, the patches by name, and the tracks by
\* index; the stacks are empty in a module nobody has edited
Module(kit, patches, trks) ==
    [kit |-> kit, patches |-> patches,
     tracks |-> [t \in 0..(Len(trks) - 1) |-> trks[t + 1]],
     undo_stack |-> <<>>, redo_stack |-> <<>>, track_history |-> <<>>]

\* A module without tracks: frames find nothing to dispatch
NoTracks == Module(<<>>, <<"Init">>, <<>>)

Some(x) == [some |-> TRUE, value |-> x]
None == [some |-> FALSE, value |-> 0]

SetMax(S) == CHOOSE x \in S : \A y \in S : y <= x

\* Module::get_kit_patch: the patch note of the first kit entry for the note
get_kit_patch(m, note) ==
    LET found == {i \in 1..Len(m.kit) : m.kit[i].input_note = note}
    IN  IF found = {} THEN None
        ELSE Some(m.kit[CHOOSE i \in found : \A j \in found : i <= j].patch_note)

\* mutant: the kit track plays a note the kit has no entry for
map_note_KitPassesNote(m, note, track) ==
    IF track \notin DOMAIN m.tracks THEN None
    ELSE LET t == m.tracks[track]
         IN  CASE t.target \in {"None", "Global"} -> None
               [] t.target = "Kit" -> Some(note)
               [] t.target = "Patch" ->
                     IF t.index < Len(m.patches) THEN Some(note) ELSE None

\* Module::map_note: the note to play, if the track maps the note to a patch
map_note(m, note, track) ==
    IF track \notin DOMAIN m.tracks THEN None
    ELSE LET t == m.tracks[track]
         IN  CASE t.target \in {"None", "Global"} -> None
               [] t.target = "Kit" -> get_kit_patch(m, note)
               [] t.target = "Patch" ->
                     IF t.index < Len(m.patches) THEN Some(note) ELSE None

\* self.tracks[t].channels.iter().flat_map(|c| c.events.iter())
TrackEvents(m, t) ==
    UNION {{m.tracks[t].channels[c][i] : i \in 1..Len(m.tracks[t].channels[c])} :
             c \in DOMAIN m.tracks[t].channels}

\* Module::find_loop_start: the latest Loop event of track 0 before the time
find_loop_start(m, before_time) ==
    LET loops == {e.tick : e \in {x \in TrackEvents(m, 0) :
                                     x.type = "Loop" /\ x.tick < before_time}}
    IN  IF loops = {} THEN None ELSE Some(SetMax(loops))

\* ------------------------------------------------------------- transport
\* Player::play
Play ==
    /\ playing' = TRUE
    /\ playtime' = 0
    /\ looped' = FALSE
    /\ start_tick' = tick
    /\ elapsed' = 0
    /\ UNCHANGED <<synths, seq, tick, tempo, hist, song>>

\* the dispatch counts as play_from leaves them
NoCount(m) ==
    [id \in {x \in (DOMAIN m.tracks) \X (0..3) \X (1..4) :
               x[2] \in DOMAIN m.tracks[x[1]].channels
                 /\ x[3] <= Len(m.tracks[x[1]].channels[x[2]])} |-> 0]

\* Player::play_from
PlayFrom(t) ==
    /\ synths' = [i \in DOMAIN synths |-> reset_memory(synths[i])]
    /\ tempo' = F32(DEFAULT_TEMPO)
    /\ tick' = t
    /\ playing' = TRUE
    /\ playtime' = 0
    /\ looped' = FALSE
    /\ start_tick' = t
    /\ elapsed' = 0
    /\ log' = <<>>
    /\ count' = NoCount(module)
    /\ UNCHANGED <<seq, hist, module, edit, time_since_loop, fx>>

\* Player::clear_notes_with_origin: synth after synth on the shared sequencer
RECURSIVE ClearFrom(_, _, _, _)
ClearFrom(i, ss, q, origin) ==
    IF i \notin DOMAIN ss THEN [synths |-> ss, seq |-> q]
    ELSE LET r == clear_notes_with_origin(ss[i], q, origin)
         IN  ClearFrom(i + 1, [ss EXCEPT ![i] = r.synth], r.seq, origin)

\* mutant: stop clears the notes of the MIDI input
Stop_ClearsMidi ==
    LET r == ClearFrom(0, synths, seq, "Midi")
    IN  /\ playing' = FALSE
        /\ synths' = r.synths
        /\ seq' = r.seq
        /\ UNCHANGED <<tick, playtime, tempo, looped, start_tick, elapsed,
                       hist, song>>

\* Player::stop
Stop ==
    LET r == ClearFrom(0, synths, seq, "Pattern")
    IN  /\ playing' = FALSE
        /\ synths' = r.synths
        /\ seq' = r.seq
        /\ UNCHANGED <<tick, playtime, tempo, looped, start_tick, elapsed,
                       hist, song>>

\* Player::clear_notes_with_origin, as the main loop calls it when the
\* keyboard or the MIDI input is taken away; the last component of op flips
\* at every call
ClearNotes(origin) ==
    LET r == ClearFrom(0, synths, seq, origin)
    IN  /\ synths' = r.synths
        /\ seq' = r.seq
        /\ op' = <<"clear_notes_with_origin", origin,
                   IF Len(op) = 3 THEN 1 - op[3] ELSE 0>>
        /\ UNCHANGED <<clock, hist, module, log, count, patch, sample, net,
                       time_since_loop, fx>>

\* mutant: RationalTempo sets the tempo to the ratio of the default tempo
rational_tempo_FromDefault(tp, n, d) == F32Mul(F32(DEFAULT_TEMPO), F32Div(n, d))

\* EventData::RationalTempo(n, d): self.tempo *= n as f32 / d as f32
rational_tempo(tp, n, d) == F32Mul(tp, F32Div(n, d))

\* the entry in HashMap order that drain().next() yields: pref if pooled
Drained(pool, pref, key) ==
    IF DOMAIN pool = {} THEN key
    ELSE IF pref \in DOMAIN pool THEN pref
    ELSE CHOOSE k \in DOMAIN pool : TRUE

\* Player::handle_event, EventData::End: go_to the loop start, else stop()
on_end(st, m) ==
    LET start == find_loop_start(m, st.tick)
    IN  IF start.some
        THEN [st EXCEPT !.tick = start.value, !.looped = TRUE]
        ELSE LET r == ClearFrom(0, st.synths, st.seq, "Pattern")
             IN  [st EXCEPT !.playing = FALSE, !.synths = r.synths, !.seq = r.seq]

\* Player::handle_event on the Player state st (synths, seq, playing, tick,
\* tempo, looped). A pattern note has no pressure of its own (None): its
\* pressure cell starts at 0.
handle_event(st, e, m, track, channel, pref) ==
    LET key == Key("Pattern", channel, 0)
        has == track \in DOMAIN st.synths
    IN  CASE e.type = "Pitch" ->
               LET note == map_note(m, e.a, track)
               IN  IF note.some /\ has
                   THEN LET s == st.synths[track]
                            r == note_on(s, st.seq, key, note.value, 0,
                                         Drained(s.voices, pref, key))
                        IN  [st EXCEPT !.synths[track] = r.synth, !.seq = r.seq]
                   ELSE st
          [] e.type = "Pressure" ->
               IF has
               THEN [st EXCEPT !.seq = channel_pressure(st.synths[track], st.seq,
                                          channel, e.a \div MAX_PRESSURE).seq]
               ELSE st
          [] e.type = "Modulation" ->
               IF has
               THEN LET r == modulate(st.synths[track], st.seq,
                                      e.a \div MAX_MODULATION)
                    IN  [st EXCEPT !.synths[track] = r.synth, !.seq = r.seq]
               ELSE st
          [] e.type = "NoteOff" ->
               IF has
               THEN LET r == note_off(st.synths[track], st.seq, key)
                    IN  [st EXCEPT !.synths[track] = r.synth, !.seq = r.seq]
               ELSE st
          [] e.type = "Tempo" -> [st EXCEPT !.tempo = F32(e.a)]
          [] e.type = "RationalTempo" ->
               [st EXCEPT !.tempo = rational_tempo(@, e.a, e.b)]
          [] e.type = "End" -> on_end(st, m)
          [] OTHER -> st

\* The events of a module in the order Player::frame visits them: by track
\* index, then channel index, then storage order
RECURSIVE ScanFrom(_, _, _, _)
ScanFrom(m, t, c, i) ==
    IF t \notin DOMAIN m.tracks THEN <<>>
    ELSE IF c \notin DOMAIN m.tracks[t].channels THEN ScanFrom(m, t + 1, 0, 1)
    ELSE IF i > Len(m.tracks[t].channels[c]) THEN ScanFrom(m, t, c + 1, 1)
    ELSE <<[track |-> t, channel |-> c, index |-> i,
            event |-> m.tracks[t].channels[c][i]]>> \o ScanFrom(m, t, c, i + 1)

\* mutant: the window is closed at both ends
InWindow_Closed(e, prev_tick, now) == e.tick >= prev_tick /\ e.tick <= now

\* event.tick >= prev_tick && event.tick < self.tick
InWindow(e, prev_tick, now) == e.tick >= prev_tick /\ e.tick < now

\* mutant: the channels of a track are visited last to first
Visit_ChannelsReversed(m) ==
    LET scan == ScanFrom(m, 0, 0, 1)
        key(x) == <<x.track, 0 - x.channel, x.index>>
        Less(x, y) ==
            \/ key(x)[1] < key(y)[1]
            \/ key(x)[1] = key(y)[1] /\ key(x)[2] < key(y)[2]
            \/ key(x)[1] = key(y)[1] /\ key(x)[2] = key(y)[2] /\ key(x)[3] < key(y)[3]
    IN  SortSeq(scan, Less)

\* for (track_i, track) .. for (channel_i, channel) .. for event
Visit(m) == ScanFrom(m, 0, 0, 1)

\* The scan of Player::frame from the j-th visited event on: each event in
\* the window, as self.tick stands when it is reached, is handed to
\* handle_event.
RECURSIVE Dispatch(_, _, _, _, _, _)
Dispatch(scan, j, prev_tick, st, m, pref) ==
    IF j > Len(scan) THEN st
    ELSE LET x == scan[j]
         IN  IF InWindow(x.event, prev_tick, st.tick)
             THEN Dispatch(scan, j + 1, prev_tick,
                     [handle_event(st, x.event, m, x.track, x.channel, pref)
                        EXCEPT !.log = Append(st.log, x)],
                     m, pref)
             ELSE Dispatch(scan, j + 1, prev_tick, st, m, pref)

\* history: the number of times a log holds the event id = <<track,
\* channel, index>>
LogId(x) == <<x.track, x.channel, x.index>>
Times(id, lg) == Cardinality({j \in 1..Len(lg) : LogId(lg[j]) = id})

\* The entries drain().next() can yield first where it matters: the Keys
\* pooled in a SingleTrigger synth that holds several voices
Prefs ==
    LET many == UNION {DOMAIN synths[i].voices : i \in
                   {j \in DOMAIN synths :
                      /\ synths[j].play_mode = "SingleTrigger"
                      /\ Cardinality(DOMAIN synths[j].voices) > 1}}
    IN  IF many = {} THEN {Key("Pattern", 0, 0)} ELSE many

\* The tempos at which the clock is modelled: whole numbers at which one tick
\* lasts a whole number of time units
ClockTempo(tp) ==
    /\ IsWhole(tp)
    /\ (60 * UnitsPerSecond) % (Whole(tp) * TICKS_PER_BEAT) = 0

\* Player::frame; H tells whether the history (count, elapsed) is kept
Advance(dt, H) ==
    IF ~playing THEN UNCHANGED <<synths, seq, hist, clock, module, log, count, edit>>
    ELSE LET pt == playtime + dt
             prev_tick == tick
             new_tick == tick + interval_ticks(pt, Whole(tempo))
             st == [synths |-> synths, seq |-> seq, playing |-> playing,
                    tick |-> new_tick, tempo |-> tempo, looped |-> looped,
                    log |-> <<>>]
         IN  /\ ClockTempo(tempo)
             /\ new_tick <= MaxTick
             /\ \E pref \in Prefs :
                \E r \in {Dispatch(Visit(module), 1, prev_tick, st, module, pref)} :
                   /\ Len(r.seq) <= MaxVoices
                   /\ synths' = r.synths
                   /\ seq' = r.seq
                   /\ playing' = r.playing
                   /\ tick' = r.tick
                   /\ tempo' = r.tempo
                   /\ looped' = r.looped
                   /\ log' = r.log
                   /\ H => \A id \in DOMAIN count :
                              count[id] + Times(id, r.log) <= MaxCount
                   /\ count' = IF H THEN [id \in DOMAIN count |->
                                             count[id] + Times(id, r.log)]
                               ELSE count
             /\ playtime' = pt - tick_interval(new_tick - prev_tick, Whole(tempo))
             /\ elapsed' = IF H THEN elapsed + dt ELSE elapsed
             /\ UNCHANGED <<start_tick, hist, module, edit>>

\* Player::frame in the main loop
Frame(dt) == Advance(dt, TRUE) /\ UNCHANGED <<time_since_loop, fx>>

\* ------------------------------------------------------------- Settings
\* Vec indices of the source start at 0; a Vec is a sequence here, with the
\* element of index j at position j + 1.

\* OscOutput
Mix(n) == <<"Mix", n>>
AM(n) == <<"AM", n>>
FM(n) == <<"FM", n>>

\* ModSource
ModSourcePitch == <<"Pitch">>
ModSourcePressure == <<"Pressure">>
ModSourceModulation == <<"Modulation">>
ModSourceRandom == <<"Random">>
Envelope(i) == <<"Envelope", i>>

\* ModTarget
Gain == <<"Gain">>
Level(n) == <<"Level", n>>
ModTargetPitch(n) == <<"Pitch", n>>
FinePitch(n) == <<"FinePitch", n>>
Duty(n) == <<"Duty", n>>
FilterCutoff == <<"FilterCutoff">>

\* Oscillator: the level tells the oscillators of one patch apart
Oscillator(level, output) == [level |-> level, output |-> output]

Modulation(source, target, depth) ==
    [source |-> source, target |-> target, depth |-> depth]

Settings(oscs, envs, mod_matrix) ==
    [oscs |-> oscs, envs |-> envs, mod_matrix |-> mod_matrix]

\* the Settings of Synth::new(); an ADSR is its release
SettingsNew ==
    Settings(<<Oscillator(1, Mix(0))>>, <<1>>,
             <<Modulation(Envelope(0), Gain, 0),
               Modulation(ModSourcePressure, Gain, 0)>>)

\* ModTarget::is_additive
is_additive(target) == target[1] \notin {"Gain", "Level"}

\* ModTarget::osc
osc(target) ==
    IF target[1] \in {"Level", "Pitch", "FinePitch", "Duty"}
    THEN Some(target[2]) ELSE None

\* Settings::mod_sources
mod_sources(s) ==
    {ModSourcePitch, ModSourcePressure, ModSourceModulation, ModSourceRandom}
        \cup {Envelope(i) : i \in 0..(Len(s.envs) - 1)}

\* Settings::mod_targets
mod_targets(s) ==
    {Gain, FilterCutoff}
        \cup UNION {{Level(i), ModTargetPitch(i), FinePitch(i), Duty(i)} :
                       i \in 0..(Len(s.oscs) - 1)}

\* Settings::outputs
outputs(osc_index) ==
    IF osc_index = 0 THEN {Mix(0)}
    ELSE UNION {{Mix(i), AM(i), FM(i)} : i \in 0..(osc_index - 1)}

\* Vec::remove
VecRemove(v, i) ==
    [j \in 1..(Len(v) - 1) |-> IF j <= i THEN v[j] ELSE v[j + 1]]

\* mutant: the entries of the removed oscillator stay in the mod matrix
remove_osc_NoRetain(s, i) ==
    IF i < Len(s.oscs)
    THEN LET oscs == VecRemove(s.oscs, i)
             kept == s.mod_matrix
         IN  [s EXCEPT
                !.oscs =
                   [j \in DOMAIN oscs |->
                      IF j - 1 = 0 THEN [oscs[j] EXCEPT !.output = Mix(0)]
                      ELSE IF oscs[j].output[2] > i
                      THEN [oscs[j] EXCEPT
                              !.output = <<oscs[j].output[1],
                                           oscs[j].output[2] - 1>>]
                      ELSE oscs[j]],
                !.mod_matrix =
                   [x \in DOMAIN kept |->
                      IF osc(kept[x].target).some /\ osc(kept[x].target).value > i
                      THEN [kept[x] EXCEPT
                              !.target = Duty(osc(kept[x].target).value - 1)]
                      ELSE kept[x]]]
    ELSE s

\* Settings::remove_osc
remove_osc(s, i) ==
    IF i < Len(s.oscs)
    THEN LET oscs == VecRemove(s.oscs, i)
             Keep(m) == osc(m.target) # Some(i)
             kept == SelectSeq(s.mod_matrix, Keep)
         IN  [s EXCEPT
                !.oscs =
                   [j \in DOMAIN oscs |->
                      IF j - 1 = 0 THEN [oscs[j] EXCEPT !.output = Mix(0)]
                      ELSE IF oscs[j].output[2] > i
                      THEN [oscs[j] EXCEPT
                              !.output = <<oscs[j].output[1],
                                           oscs[j].output[2] - 1>>]
                      ELSE oscs[j]],
                !.mod_matrix =
                   [x \in DOMAIN kept |->
                      IF osc(kept[x].target).some /\ osc(kept[x].target).value > i
                      THEN [kept[x] EXCEPT
                              !.target = Duty(osc(kept[x].target).value - 1)]
                      ELSE kept[x]]]
    ELSE s

\* mutant: the envelopes after the removed one keep their old numbers
remove_env_NoShift(s, i) ==
    IF i < Len(s.envs)
    THEN LET Keep(m) == m.source # Envelope(i)
         IN  [s EXCEPT !.envs = VecRemove(s.envs, i),
                       !.mod_matrix = SelectSeq(s.mod_matrix, Keep)]
    ELSE s

\* Settings::remove_env
remove_env(s, i) ==
    IF i < Len(s.envs)
    THEN LET Keep(m) == m.source # Envelope(i)
             kept == SelectSeq(s.mod_matrix, Keep)
         IN  [s EXCEPT
                !.envs = VecRemove(s.envs, i),
                !.mod_matrix =
                   [x \in DOMAIN kept |->
                      IF kept[x].source[1] = "Envelope" /\ kept[x].source[2] > i
                      THEN [kept[x] EXCEPT
                              !.source = Envelope(kept[x].source[2] - 1)]
                      ELSE kept[x]]]
    ELSE s

\* Settings::make_osc: the indices of the oscillators whose nets the net of
\* oscillator i is made of, one entry per make_net call
RECURSIVE make_osc(_, _), MakeFrom(_, _, _)
make_osc(s, i) == <<i>> \o MakeFrom(s, i, 0)

\* the loop of make_osc over the oscillators from index j on
MakeFrom(s, i, j) ==
    IF j >= Len(s.oscs) THEN <<>>
    ELSE (IF j > i /\ s.oscs[j + 1].output \in {Mix(i), AM(i), FM(i)}
          THEN make_osc(s, j) ELSE <<>>) \o MakeFrom(s, i, j + 1)

\* the value the source of a Modulation has at the sample v: a missing
\* envelope is zero()
SourceValue(s, v, source) ==
    IF source[1] = "Envelope" /\ source[2] >= Len(s.envs) THEN 0
    ELSE v[source]

\* mutant: the depth scales the source at every target
modulation_dsp_component_AlwaysDepth(m, s, v) ==
    SourceValue(s, v, m.source) * m.depth

\* Modulation::dsp_component
modulation_dsp_component(m, s, v) ==
    IF is_additive(m.target)
    THEN SourceValue(s, v, m.source) * m.depth
    ELSE SourceValue(s, v, m.source)

\* the loop of Settings::dsp_component over the mod matrix from position x on
RECURSIVE DspFrom(_, _, _, _, _)
DspFrom(s, v, target, x, acc) ==
    IF x > Len(s.mod_matrix) THEN acc
    ELSE LET m == s.mod_matrix[x]
         IN  DspFrom(s, v, target, x + 1,
                     IF m.target = target
                     THEN IF is_additive(target)
                          THEN acc + modulation_dsp_component(m, s, v)
                          ELSE acc * modulation_dsp_component(m, s, v)
                     ELSE acc)

\* Settings::dsp_component
dsp_component(s, v, target) ==
    DspFrom(s, v, target, 1, IF is_additive(target) THEN 0 ELSE 1)

\* the patch editor removes an oscillator
RemoveOsc(i) ==
    /\ patch' = remove_osc(patch, i)
    /\ op' = <<"remove_osc", i>>
    /\ UNCHANGED <<synths, seq, hist, clock, module, log, count, sample, net,
                   time_since_loop, fx>>

\* the patch editor removes an envelope
RemoveEnv(i) ==
    /\ patch' = remove_env(patch, i)
    /\ op' = <<"remove_env", i>>
    /\ UNCHANGED <<synths, seq, hist, clock, module, log, count, sample, net,
                   time_since_loop, fx>>

\* a voice is built: the Net of one target is made and read at the sample
DspComponent(target) ==
    /\ net' = dsp_component(patch, sample, target)
    /\ op' = <<"dsp_component", target>>
    /\ UNCHANGED <<synths, seq, hist, clock, module, log, count, patch, sample,
                   time_since_loop, fx>>

\* the Settings p under edit, no call made yet, the source values v
InitEdit(p, v) ==
    /\ patch = p
    /\ op = <<"new">>
    /\ sample = v
    /\ net = 0

\* VoiceVars at rest: every source reads 0
NoSample == [x \in mod_sources(SettingsNew) |-> 0]

\* ------------------------------------------------------------- GlobalFX
\* FXSettings: the predelay time, in hundredths of a second, and the reverb
\* parameters (room size; time in tenths of a second)
FXSettings(predelay_time, reverb_room_size, reverb_time) ==
    [predelay_time |-> predelay_time, reverb_room_size |-> reverb_room_size,
     reverb_time |-> reverb_time]

\* FXSettings::default
FXSettingsDefault == FXSettings(1, 20, 2)

\* FXSettings::make_predelay: delay(predelay_time) | delay(predelay_time),
\* told by the time it was built with
make_predelay(settings) == <<"delay", settings.predelay_time>>

\* FXSettings::make_reverb: reverb2_stereo(room_size, time, ..), told by the
\* parameters it was built with
make_reverb(settings) ==
    <<"reverb2_stereo", settings.reverb_room_size, settings.reverb_time>>

\* GlobalFX::new: both subgraphs built from the settings; rebuilt is the
\* history of the last call, the subgraphs it replaced
GlobalFXNew ==
    [settings |-> FXSettingsDefault,
     predelay |-> make_predelay(FXSettingsDefault),
     reverb |-> make_reverb(FXSettingsDefault),
     rebuilt |-> {}]

\* GlobalFX::crossfade: net.crossfade(id, Fade::Smooth, 0.1, unit) and
\* net.commit() put the unit in the place of the node id
crossfade(g, id, unit) ==
    IF id = "predelay_id" THEN [g EXCEPT !.predelay = unit, !.rebuilt = @ \cup {id}]
    ELSE [g EXCEPT !.reverb = unit, !.rebuilt = @ \cup {id}]

\* GlobalFX::commit_predelay
commit_predelay(g) == crossfade(g, "predelay_id", make_predelay(g.settings))

\* GlobalFX::commit_reverb
commit_reverb(g) == crossfade(g, "reverb_id", make_reverb(g.settings))

\* App::update, global controls (main.rs): the sliders write the settings,
\* and a subgraph whose parameters differ from those read before the
\* sliders is crossfaded to one built from the values read before
global_controls(g, new) ==
    LET old == g.settings
        g0 == [g EXCEPT !.settings = new, !.rebuilt = {}]
        g1 == IF old.predelay_time # new.predelay_time
              THEN crossfade(g0, "predelay_id", make_predelay(old)) ELSE g0
    IN  IF old.reverb_room_size # new.reverb_room_size
             \/ old.reverb_time # new.reverb_time
        THEN crossfade(g1, "reverb_id", make_reverb(old)) ELSE g1

\* Player::new(seq, module.tracks.len()): one Synth::new() per index 0 ..=
\* num_tracks, clock at rest, for the module m and the tempo tp
InitTransport(m, ss, tp) ==
    /\ synths = ss
    /\ seq = <<>>
    /\ held = [i \in Tracks |-> {}]
    /\ missed = ""
    /\ playing = FALSE
    /\ tick = 0
    /\ playtime = 0
    /\ tempo = F32(tp)
    /\ looped = FALSE
    /\ start_tick = 0
    /\ elapsed = 0
    /\ module = m
    /\ log = <<>>
    /\ count = NoCount(m)
    /\ time_since_loop = 0
    /\ fx = GlobalFXNew

\* the Player of the module m, with the Settings of a new Synth under edit
InitSong(m, ss, tp) == InitTransport(m, ss, tp) /\ InitEdit(SettingsNew, NoSample)

InitPlayer(ss, tp) == InitSong(NoTracks, ss, tp)

Init == InitPlayer([i \in Tracks |-> SynthNew], DEFAULT_TEMPO)

\* The same Player after the play mode selector was set to m
InitMode(m) ==
    InitPlayer([i \in Tracks |-> [SynthNew EXCEPT !.play_mode = m]], DEFAULT_TEMPO)

\* The same Player at rest after a Tempo event set the tempo
InitTick == \E tp \in Tempos : InitPlayer([i \in Tracks |-> SynthNew], tp)

\* history: held and missed are recorded when H names them, else left alone
Held(H, t, h) ==
    held' = IF "held" \in H /\ t \in Tracks THEN [held EXCEPT ![t] = h] ELSE held

Missed(H, t, found, kind) ==
    missed' = IF "missed" \in H
              THEN (IF t \notin Tracks THEN "track"
                    ELSE IF found THEN "" ELSE kind)
              ELSE missed

\* The calls the control context makes on the Player, with track arguments
\* drawn from TA, pitches from PS, bends from BS, pressures from PrS and
\* modulation depths from DS.
Calls(TA, PS, BS, PrS, DS, H) ==
    \/ \E t \in TA, k \in Keys, p \in PS, pr \in PrS :
          /\ PlayerNoteOn(t, k, p, pr)
          /\ Held(H, t, held[t] \cup {k})
          /\ Missed(H, t, TRUE, "")
          /\ UNCHANGED song
    \/ \E t \in TA, k \in Keys :
          /\ PlayerNoteOff(t, k)
          /\ Held(H, t, held[t] \ {k})
          /\ Missed(H, t, k \in DOMAIN synths[t].voices, "note_off")
          /\ UNCHANGED song
    \/ \E t \in TA, c \in Channels, b \in BS :
          /\ PlayerPitchBend(t, c, b)
          /\ UNCHANGED <<held, song>>
          /\ Missed(H, t, TRUE, "")
    \/ \E t \in TA, k \in Keys, pr \in PrS :
          /\ PlayerPolyPressure(t, k, pr)
          /\ UNCHANGED <<held, song>>
          /\ Missed(H, t, k \in DOMAIN synths[t].voices, "poly_pressure")
    \/ \E t \in TA, c \in Channels, pr \in PrS :
          /\ PlayerChannelPressure(t, c, pr)
          /\ UNCHANGED <<held, song>>
          /\ Missed(H, t, TRUE, "")
    \/ \E t \in TA, c \in Channels, d \in DS :
          /\ PlayerModulate(t, c, d)
          /\ UNCHANGED <<held, song>>
          /\ Missed(H, t, TRUE, "")

\* The patch editor
Edits(MS, RS, H) ==
    \/ \E t \in Tracks, m \in MS :
          SetPlayMode(t, m) /\ UNCHANGED <<held, song>> /\ Missed(H, t, TRUE, "")
    \/ \E t \in Tracks, r \in RS :
          SetRelease(t, r) /\ UNCHANGED <<held, song>> /\ Missed(H, t, TRUE, "")

\* Any play mode, mode changes between calls
Next == Calls(Tracks, Pitches, {0}, {0}, {0}, {}) \/ Edits(PlayModes, {1}, {})

Spec == Init /\ [][Next]_vars

\* The play mode stays what it was set to before the first note
NextPoly == Calls(Tracks, Pitches, {0}, {0}, {0}, {"held"})

SpecPoly == InitMode("Poly") /\ [][NextPoly]_vars

NextMono == Calls(Tracks, Pitches, {0}, {0}, {0}, {})

SpecMono == InitMode("Mono") /\ [][NextMono]_vars

\* The release slider moves between calls
NextRelease == Calls(Tracks, {60}, {0}, {0}, {0}, {}) \/ Edits(PlayModes, Releases, {})

SpecRelease == Init /\ [][NextRelease]_vars

\* Pressure messages, and calls that name a track without a Synth
NextPressure ==
    Calls(TrackArgs, {60}, {0}, Depths, {0}, {"missed"}) \/ Edits(PlayModes, {1}, {"missed"})

SpecPressure == Init /\ [][NextPressure]_vars

\* Pitch-bend messages
NextBend == Calls(Tracks, Pitches, Bends, {0}, {0}, {}) \/ Edits(PlayModes, {1}, {})

SpecBend == Init /\ [][NextBend]_vars

\* Modulation-wheel messages
NextMod == Calls(Tracks, {60}, {0}, {0}, Depths, {}) \/ Edits(PlayModes, {1}, {})

SpecMod == Init /\ [][NextMod]_vars

\* ------------------------------------------------------------- claims
\* The one Synth the claims speak of, its pool, and the sounding voices
Pool == synths[0].voices
LiveVoices == {id \in DOMAIN seq : seq[id].gate = 1}

\* C1: in Poly mode the number of live voices (pushed, gate still 1) equals
\* the number of Keys held (note_on with no later note_off), also when
\* note_on is repeated for a held Key.
C1_PolyLiveEqualsHeld == Cardinality(LiveVoices) = Cardinality(held[0])

\* C2: at most one live Voice per Key: when the pool's Voice for a Key is
\* replaced by another, the earlier one does not stay un-released in the
\* sequencer.
C2_OneLiveVoicePerKey ==
    [][\A k \in DOMAIN Pool :
          LET id == Pool[k].event_id
          IN  (k \in DOMAIN synths'[0].voices
                  /\ synths'[0].voices[k].event_id # id)
                => seq'[id].gate = 0]_vars

\* C3: in Mono mode at most one voice has gate 1: every voice pushed before
\* the latest one has had off() applied (gate 0, removal scheduled).
C3_MonoOneSounding ==
    /\ Cardinality(LiveVoices) <= 1
    /\ \A id \in DOMAIN seq :
          id < Len(seq) => seq[id].gate = 0 /\ seq[id].end # INFINITY

\* Mono: a second note_on has released the first voice, which is still pooled
C3_Witness ==
    /\ synths[0].play_mode = "Mono"
    /\ Len(seq) >= 2
    /\ seq[Len(seq)].gate = 1
    /\ \E k \in DOMAIN Pool : seq[Pool[k].event_id].gate = 0

\* C4: SingleTrigger note_on while the one pooled voice sounds pushes
\* nothing: the same Voice (same event id, gate 1) is kept, its frequency is
\* midi_hz(new pitch), and it is pooled under the new Key only.
C4_SingleTriggerReuses ==
    [][\A k0 \in DOMAIN Pool, k \in Keys, p \in Pitches, pr \in Depths :
          LET id == Pool[k0].event_id
          IN  (/\ synths[0].play_mode = "SingleTrigger"
               /\ DOMAIN Pool = {k0}
               /\ seq[id].gate = 1
               /\ PlayerNoteOn(0, k, p, pr))
                => /\ Len(seq') = Len(seq)
                   /\ DOMAIN synths'[0].voices = {k}
                   /\ synths'[0].voices[k].event_id = id
                   /\ seq'[id].gate = 1
                   /\ seq'[id].freq = midi_hz(p)]_vars

\* SingleTrigger: one voice pushed for pitch 60 now sounds at pitch 62
C4_Witness ==
    /\ synths[0].play_mode = "SingleTrigger"
    /\ Len(seq) = 1
    /\ \E k \in DOMAIN Pool :
          /\ DOMAIN Pool = {k}
          /\ Pool[k].base_pitch = 60
          /\ seq[Pool[k].event_id].gate = 1
          /\ seq[Pool[k].event_id].freq = midi_hz(62)

\* C5: SingleTrigger note_on when no voice is sounding (no gate is 1)
\* creates a new Voice with gate 1, in every reachable state.
C5_SingleTriggerStartsVoice ==
    [][\A k \in Keys, p \in Pitches, pr \in Depths :
          (/\ synths[0].play_mode = "SingleTrigger"
           /\ LiveVoices = {}
           /\ PlayerNoteOn(0, k, p, pr))
            => /\ Len(seq') = Len(seq) + 1
               /\ seq'[Len(seq')].gate = 1]_vars

\* C6: note_off for a pooled Key evicts that entry in the same call, sets
\* that voice's gate to 0 and schedules its removal after the voice's own
\* release time; every other pool entry and sequencer event is unchanged.
C6_NoteOffReleases ==
    [][\A k \in DOMAIN Pool :
          LET id == Pool[k].event_id
          IN  PlayerNoteOff(0, k)
                => /\ DOMAIN synths'[0].voices = DOMAIN Pool \ {k}
                   /\ \A k2 \in DOMAIN Pool \ {k} :
                         synths'[0].voices[k2] = Pool[k2]
                   /\ DOMAIN seq' = DOMAIN seq
                   /\ seq'[id].gate = 0
                   /\ seq'[id].end = Pool[k].release_time
                   /\ \A id2 \in DOMAIN seq \ {id} : seq'[id2] = seq[id2]]_vars

\* A voice created while the release was 2 was released by note_off after
\* the slider went back to 1, while another voice stays pooled and sounding
C6_Witness ==
    /\ synths[0].play_mode = "Poly"
    /\ synths[0].release = 1
    /\ \E id \in DOMAIN seq :
          /\ seq[id].gate = 0 /\ seq[id].end = 2
          /\ \A k \in DOMAIN Pool : Pool[k].event_id # id
    /\ \E k \in DOMAIN Pool : seq[Pool[k].event_id].gate = 1

\* C7: invalid lookups are silent no-ops: a note_off or poly_pressure for a
\* Key that is not pooled, and any Player call for a track without a Synth
\* (the steps that set missed), change no voice, pool or sequencer state.
C7_InvalidLookupsNoOp ==
    [][missed' # "" => UNCHANGED <<synths, seq, clock>>]_vars

\* poly_pressure for an absent Key was the last call, made while a pooled
\* voice with pressure 0 and one with pressure 1 were sounding
C7_Witness ==
    /\ missed = "poly_pressure"
    /\ \E k1, k2 \in DOMAIN Pool :
          /\ seq[Pool[k1].event_id].gate = 1
          /\ seq[Pool[k1].event_id].pressure = 1
          /\ seq[Pool[k2].event_id].pressure = 0

\* C8: pitch_bend(channel, b) stores b for that channel only and sets every
\* pooled Midi voice of the channel to midi_hz(base_pitch + b), leaving every
\* other voice alone; the value persists across note_on and note_off, and a
\* later Midi note_on on the channel starts at midi_hz(pitch + b).
C8_BendMemory ==
    [][/\ \A c \in Channels, b \in Bends :
             PlayerPitchBend(0, c, b)
               => /\ synths'[0].bend_memory =
                        [synths[0].bend_memory EXCEPT ![c] = b]
                  /\ \A id \in DOMAIN seq :
                        seq'[id].freq =
                          IF \E k \in DOMAIN Pool :
                                /\ Pool[k].event_id = id
                                /\ k.origin = "Midi" /\ k.channel = c
                          THEN midi_hz((CHOOSE v \in {Pool[k] : k \in DOMAIN Pool} :
                                          v.event_id = id).base_pitch + b)
                          ELSE seq[id].freq
       /\ \A k \in Keys, p \in Pitches, pr \in Depths :
             (k.origin = "Midi" /\ PlayerNoteOn(0, k, p, pr))
               => /\ synths'[0].bend_memory = synths[0].bend_memory
                  /\ seq'[synths'[0].voices[k].event_id].freq =
                        midi_hz(p + synths[0].bend_memory[k.channel])
       /\ \A k \in Keys :
             PlayerNoteOff(0, k)
               => synths'[0].bend_memory = synths[0].bend_memory]_vars

\* The modulation value a new voice for Key k would start with
StartModulation(s, q, k) ==
    LET r == note_on([s EXCEPT !.play_mode = "Poly"], q, k, 60, 0, k)
    IN  r.seq[Len(r.seq)].modulation

\* C9: a modulate message for channel c changes the modulation cell of
\* sounding voices on channel c only and the start value of later note-ons
\* on channel c only; other channels keep their own modulation value.
C9_ModulationPerChannel ==
    [][\A c \in Channels, d \in Depths :
          PlayerModulate(0, c, d)
            => \A k \in Keys :
                  (k.origin = "Midi" /\ k.channel # c)
                    => /\ k \in DOMAIN Pool =>
                             seq'[Pool[k].event_id].modulation =
                                seq[Pool[k].event_id].modulation
                       /\ StartModulation(synths'[0], seq', k) =
                             StartModulation(synths[0], seq, k)]_vars

\* The clock alone: transport and frames on a module without events
NextTick ==
    \/ Play
    \/ \E t \in StartTicks : PlayFrom(t)
    \/ Stop
    \/ \E dt \in 0..MaxDt : Frame(dt)

SpecTick == InitTick /\ [][NextTick]_vars

\* C10: at a fixed tempo the tick counter is within one tick of
\* start_tick + elapsed * tempo / 60 * TICKS_PER_BEAT, and the leftover
\* playtime is the elapsed time minus the duration of the ticks consumed.
C10_TickDriftFree ==
    /\ Abs((tick - start_tick) * 60 * UnitsPerSecond
              - elapsed * Whole(tempo) * TICKS_PER_BEAT) <= 60 * UnitsPerSecond
    /\ playtime * Whole(tempo) * TICKS_PER_BEAT =
          elapsed * Whole(tempo) * TICKS_PER_BEAT
            - (tick - start_tick) * 60 * UnitsPerSecond

\* Several frames in, a tick was rounded up: the leftover is negative
C10_Witness ==
    /\ playing
    /\ Whole(tempo) = 60
    /\ tick - start_tick >= 3
    /\ elapsed > 3 * MaxDt
    /\ playtime < 0

\* ------------------------------------------------------------- playback
\* A module with a control track (Global) of one channel and one instrument
\* track (Patch(0)) of two channels; the module has one patch.
Song(ctrl, ch0, ch1) ==
    Module(<<>>, <<"Init">>, <<Track("Global", 0, <<ctrl>>), Track("Patch", 0, <<ch0, ch1>>)>>)

\* Player::new for the module m, as App::new and reinit call it
InitPlay(M) ==
    \E m \in M :
       InitSong(m, [i \in 0..Cardinality(DOMAIN m.tracks) |-> SynthNew],
                DEFAULT_TEMPO)

\* The transport keys and the frames of the main loop
NextPlay ==
    \/ Play
    \/ \E t \in StartTicks : PlayFrom(t)
    \/ Stop
    \/ \E dt \in 0..MaxDt : Frame(dt)

\* Songs without End: notes on both channels, a tempo change on the way
ScanSongs ==
    {Song(ctrl, ch0, ch1) :
        ctrl \in {<<Tempo(2, 60)>>, <<Tempo(1, 240), Loop(4)>>},
        ch0 \in {<<Pitch(0, 60), NoteOff(3)>>, <<Pitch(5, 60), NoteOff(6)>>},
        ch1 \in {<<NoteOff(0), Pitch(4, 62)>>, <<Pitch(3, 62), NoteOff(6)>>}}

SpecScan == InitPlay(ScanSongs) /\ [][NextPlay]_vars

EventIds == DOMAIN count
EventOf(id) == module.tracks[id[1]].channels[id[2]][id[3]]
EndDispatched == \E id \in EventIds : EventOf(id).type = "End" /\ count[id] > 0

\* C11: while playing and as long as no End event has been dispatched, a
\* frame (a step that adds to the elapsed time) dispatches exactly the events whose tick lies in [prev_tick,
\* new_tick), each once, and so every event at or after the play_from tick
\* has been dispatched once when the tick has passed it and not before.
C11_DispatchedOnce ==
    [][~EndDispatched' =>
         /\ (playing /\ elapsed' > elapsed) =>
                  \A id \in EventIds :
                     Times(id, log') =
                        IF EventOf(id).tick >= tick /\ EventOf(id).tick < tick'
                        THEN 1 ELSE 0
         /\ \A id \in EventIds :
               EventOf(id).tick >= start_tick' =>
                  count'[id] = IF EventOf(id).tick < tick' THEN 1 ELSE 0]_vars

\* Several frames after play_from(3) every event from tick 3 on was
\* dispatched once, the earlier ones never
C11_Witness ==
    /\ playing /\ start_tick = 3 /\ tick >= 7 /\ elapsed > 2 * MaxDt
    /\ Cardinality(EventIds) >= 4
    /\ \E id \in EventIds : EventOf(id).tick < 3 /\ count[id] = 0
    /\ \A id \in EventIds : EventOf(id).tick >= 3 => count[id] = 1

\* C12: within one frame the events are dispatched in ascending track
\* index, then ascending channel index, and within a channel in
\* non-decreasing tick order.
C12_DispatchOrder ==
    \A i, j \in 1..Len(log) :
       i < j =>
          \/ log[i].track < log[j].track
          \/ log[i].track = log[j].track /\ log[i].channel < log[j].channel
          \/ /\ log[i].track = log[j].track /\ log[i].channel = log[j].channel
             /\ log[i].event.tick <= log[j].event.tick

\* One frame dispatched events of the control track and of both channels of
\* the instrument track, two of them from one channel
C12_Witness ==
    /\ Len(log) >= 4
    /\ \E i, j, k \in 1..Len(log) :
          /\ log[i].track = 0 /\ log[j].track = 1 /\ log[k].track = 1
          /\ log[j].channel = 0 /\ log[k].channel = 1
          /\ log[k].event.tick < log[j].event.tick
    /\ \E i, j \in 1..Len(log) :
          i < j /\ LogId(log[i])[1] = LogId(log[j])[1]
                /\ log[i].channel = log[j].channel
                /\ log[i].event.tick < log[j].event.tick

\* ------------------------------------------------------------- tempo
\* n, d of the RationalTempo events; the first two are powers of two
Ratios == {<<1, 2>>, <<2, 1>>, <<1, 3>>, <<4, 3>>}
PowersOfTwo == {1, 2, 4, 8, 16, 32, 64, 128}

\* A control track of two channels, one RationalTempo event in each, both
\* at tick 1: one frame dispatches the first channel's, then the second's
TempoSongs ==
    {Module(<<>>, <<"Init">>, <<Track("Global", 0, <<<<RationalTempo(1, r1[1], r1[2])>>,
                                         <<RationalTempo(1, r2[1], r2[2])>>>>)>>) :
        r1 \in Ratios, r2 \in Ratios}

\* The Player at rest on such a song after a Tempo event set the tempo
InitTempo ==
    \E m \in TempoSongs, tp \in Tempos :
       InitSong(m, [i \in 0..Cardinality(DOMAIN m.tracks) |-> SynthNew], tp)

SpecTempo == InitTempo /\ [][NextPlay]_vars

\* the frame just taken dispatched two RationalTempo events and nothing else
TwoRatios(lg) ==
    Len(lg) = 2 /\ lg[1].event.type = "RationalTempo"
                /\ lg[2].event.type = "RationalTempo"

\* C13 as claimed: dispatching RationalTempo(n1, d1) and then
\* RationalTempo(n2, d2) leaves the same tempo as the single event
\* RationalTempo(n1 * n2, d1 * d2) would, and as the two events in the
\* opposite order would.
C13_RationalTempoComposes ==
    [][(playing /\ elapsed' > elapsed /\ TwoRatios(log')) =>
         LET e1 == log'[1].event
             e2 == log'[2].event
         IN  /\ tempo' = rational_tempo(tempo, e1.a * e2.a, e1.b * e2.b)
             /\ tempo' = rational_tempo(rational_tempo(tempo, e2.a, e2.b),
                                        e1.a, e1.b)]_vars

\* |x - y| <= 2^-21 * y, for f32 values at most one binade apart
F32Close(x, y) ==
    LET d == IF x.e = y.e THEN Abs(x.m - y.m)
             ELSE IF x.e = y.e + 1 THEN Abs(2 * x.m - y.m)
             ELSE IF y.e = x.e + 1 THEN Abs(x.m - 2 * y.m) \div 2
             ELSE Two24
    IN  d < 16 /\ d * 2097152 <= y.m

\* C13 as amended: the two-event tempo equals the single-event tempo and
\* the opposite-order tempo up to f32 rounding (relative difference at most
\* 2^-21), and exactly when both ratios are powers of two.
C13_ComposesUpToRounding ==
    [][(playing /\ elapsed' > elapsed /\ TwoRatios(log')) =>
         LET e1 == log'[1].event
             e2 == log'[2].event
             one == rational_tempo(tempo, e1.a * e2.a, e1.b * e2.b)
             swapped == rational_tempo(rational_tempo(tempo, e2.a, e2.b),
                                       e1.a, e1.b)
         IN  /\ F32Close(tempo', one) /\ F32Close(tempo', swapped)
             /\ ({e1.a, e1.b, e2.a, e2.b} \subseteq PowersOfTwo)
                   => tempo' = one /\ tempo' = swapped]_vars

\* One frame dispatched RationalTempo(1, 3) and then RationalTempo(4, 3)
\* from the default tempo: the tempo is no longer a whole number
C13_Witness ==
    /\ TwoRatios(log)
    /\ log[1].event.a = 1 /\ log[1].event.b = 3
    /\ log[2].event.a = 4 /\ log[2].event.b = 3
    /\ playing /\ ~IsWhole(tempo)
    /\ F32Close(tempo, F32Div(160, 3))

\* ------------------------------------------------------------- End
\* Songs with an End event: alone, after a Loop marker, before one; one
\* note at tick 0 on the instrument track
EndSongs ==
    {Song(ctrl, <<Pitch(0, 60)>>, <<>>) :
        ctrl \in {<<End(0)>>, <<End(3)>>, <<Loop(1), End(3)>>,
                  <<End(3), Loop(4)>>}}

SpecEnd == InitPlay(EndSongs) /\ [][NextPlay]_vars

\* the ticks of the Loop markers of track 0, and the tick of the End event
LoopTicks == {e.tick : e \in {x \in TrackEvents(module, 0) : x.type = "Loop"}}
EndTicks == {e.tick : e \in {x \in TrackEvents(module, 0) : x.type = "End"}}
EndsIn(lg) == Cardinality({j \in 1..Len(lg) : lg[j].event.type = "End"})

\* every voice pooled under a Pattern Key in ss has gate 0 and a scheduled
\* removal in q, and no pool of tt holds a Pattern Key
PatternCleared(ss, tt, q) ==
    /\ \A i \in DOMAIN tt : \A k \in DOMAIN tt[i].voices : k.origin # "Pattern"
    /\ \A i \in DOMAIN ss : \A k \in DOMAIN ss[i].voices :
          k.origin = "Pattern" =>
             /\ q[ss[i].voices[k].event_id].gate = 0
             /\ q[ss[i].voices[k].event_id].end # INFINITY

\* C14: when a frame dispatches an End event (its last dispatch, and the
\* only End of the frame): if track 0 holds a Loop marker at or before the
\* current tick (the tick of the End event playback has reached), the tick
\* is set to the most recent such marker, playback keeps playing and looped
\* is true; if there is none, playback stops and the Pattern-origin notes
\* are cleared.
C14_EndLoopsOrStops ==
    [][(playing /\ elapsed' > elapsed /\ EndsIn(log') = 1
           /\ log'[Len(log')].event.type = "End") =>
         LET cur == log'[Len(log')].event.tick
             marks == {t \in LoopTicks : t <= cur}
         IN  IF marks # {}
             THEN tick' = SetMax(marks) /\ playing' /\ looped'
             ELSE ~playing' /\ PatternCleared(synths, synths', seq')]_vars

\* C15: one Pitch event at tick 0 on a track mapped to a patch, one End
\* event at tick T, no Loop marker: after play_from(0) the note is
\* dispatched once, playing becomes false in the frame whose window contains
\* T, and after that stop no voice remains live (all voices of these songs
\* are Pattern-origin).
C15_OneNoteThenStop ==
    [][(LoopTicks = {} /\ start_tick = 0 /\ playing /\ elapsed' > elapsed) =>
         /\ count'[<<1, 0, 1>>] = (IF tick' > 0 THEN 1 ELSE 0)
         /\ Len(seq') = Len(seq) + (IF tick = 0 /\ tick' > 0 THEN 1 ELSE 0)
         /\ (\E t \in EndTicks : tick <= t /\ t < tick') =>
               /\ ~playing'
               /\ \A id \in DOMAIN seq' :
                     seq'[id].gate = 0 /\ seq'[id].end # INFINITY]_vars

\* ------------------------------------------------------------- patch editor
\* the oscillator Vecs of n oscillators the editor can build: oscillator j
\* outputs to one of outputs(j)
RECURSIVE OscVecs(_)
OscVecs(n) ==
    IF n = 0 THEN {<<>>}
    ELSE {Append(v, Oscillator(n, o)) : v \in OscVecs(n - 1), o \in outputs(n - 1)}

\* the entries that route the pressure to the targets T
Routes(T) == {Modulation(ModSourcePressure, t, 1) : t \in T}

\* the player at rest with the Settings p under edit
InitPatch(p) ==
    /\ InitTransport(NoTracks, [i \in Tracks |-> SynthNew], DEFAULT_TEMPO)
    /\ InitEdit(p, NoSample)

\* Settings of one to MaxOscs oscillators and one envelope, whose mod matrix
\* of at most MaxMods entries routes the pressure to the gain, the filter
\* or the level of an oscillator
InitOsc ==
    \E n \in 1..MaxOscs : \E v \in OscVecs(n) : \E k \in 0..MaxMods :
       \E mm \in [1..k -> Routes({Gain, FilterCutoff}
                                    \cup {Level(i) : i \in 0..(n - 1)})] :
          InitPatch(Settings(v, <<1>>, mm))

NextOsc == \E i \in 0..MaxOscs : RemoveOsc(i)

SpecOsc == InitOsc /\ [][NextOsc]_vars

\* Settings of one to MaxOscs oscillators as Oscillator::new() makes them
\* and one envelope, whose mod matrix routes the pressure to targets of
\* mod_targets
InitOscMod ==
    \E n \in 1..MaxOscs : \E k \in 0..MaxMods :
       \E mm \in [1..k -> Routes({Gain, FilterCutoff}
                                    \cup UNION {{Level(i), ModTargetPitch(i)} :
                                                   i \in 0..(n - 1)})] :
          InitPatch(Settings([j \in 1..n |-> Oscillator(j, Mix(0))], <<1>>, mm))

SpecOscMod == InitOscMod /\ [][NextOsc]_vars

\* the positions of the mod matrix mm whose target is not on oscillator k,
\* and the number of them up to position x
Survivors(mm, k) == {x \in DOMAIN mm : osc(mm[x].target) # Some(k)}
Rank(S, x) == Cardinality({y \in S : y <= x})

\* C16: remove_osc(k) on an existing oscillator removes the mod-matrix
\* entries that target oscillator k, makes the entries that target an
\* oscillator n > k reference n - 1, leaves the reference of the entries
\* with n < k and the targets without oscillator (Gain, FilterCutoff) as
\* they are, adds and removes nothing else and keeps the order.
C16_RemoveOscModMatrix ==
    [][(op' # op \/ patch' # patch) /\ op'[1] = "remove_osc"
          /\ op'[2] < Len(patch.oscs) =>
         LET k == op'[2]
             old == patch.mod_matrix
             new == patch'.mod_matrix
             S == Survivors(old, k)
         IN  /\ Len(new) = Cardinality(S)
             /\ \A x \in S :
                   LET was == old[x]
                       now == new[Rank(S, x)]
                   IN  /\ now.source = was.source
                       /\ now.depth = was.depth
                       /\ IF osc(was.target).some
                          THEN osc(now.target) =
                                  Some(IF osc(was.target).value > k
                                       THEN osc(was.target).value - 1
                                       ELSE osc(was.target).value)
                          ELSE now.target = was.target]_vars

\* remove_osc(1) left two oscillators, kept a Gain entry and renumbered an
\* entry of oscillator 2 (no Duty target exists before a removal)
C16_Witness ==
    /\ op = <<"remove_osc", 1>>
    /\ Len(patch.oscs) = 2
    /\ patch.mod_matrix = <<Modulation(ModSourcePressure, Gain, 1),
                            Modulation(ModSourcePressure, Duty(1), 1)>>
    /\ \A j \in DOMAIN patch.oscs : patch.oscs[j].output = Mix(0)

\* C17: remove_osc(k) on an existing oscillator renumbers the output of
\* every surviving oscillator: a reference Mix/AM/FM(n) with n > k becomes
\* the same kind with n - 1, one with n < k is untouched, and one exactly at
\* k is dropped: it does not survive as a reference to the oscillator that
\* now has index k. Mix(0) is the master mix, the output of a new
\* oscillator and of oscillator 0, and counts as no reference.
C17_RemoveOscOutputs ==
    [][(op' # op \/ patch' # patch) /\ op'[1] = "remove_osc"
          /\ op'[2] < Len(patch.oscs) =>
         LET k == op'[2]
         IN  /\ Len(patch'.oscs) = Len(patch.oscs) - 1
             /\ \A j \in 0..(Len(patch.oscs) - 1) :
                   j # k =>
                      LET was == patch.oscs[j + 1]
                          now == patch'.oscs[(IF j < k THEN j ELSE j - 1) + 1]
                      IN  /\ now.level = was.level
                          /\ (IF j < k THEN j ELSE j - 1) > 0 =>
                                IF was.output[2] > k
                                THEN now.output = <<was.output[1], was.output[2] - 1>>
                                ELSE IF was.output[2] < k
                                THEN now.output = was.output
                                ELSE now.output[2] # k \/ now.output = Mix(0)]_vars

\* C19: in every Settings reached from one the editor can build by
\* remove_osc calls (and still holding an oscillator), oscillator 0 outputs
\* Mix(0) and every oscillator j > 0 outputs to an index below j, so the
\* routing has no cycle and make_osc(0) takes in every oscillator exactly
\* once.
C19_RoutingAcyclic ==
    Len(patch.oscs) > 0 =>
       /\ patch.oscs[1].output = Mix(0)
       /\ \A j \in 1..(Len(patch.oscs) - 1) : patch.oscs[j + 1].output[2] < j
       /\ Len(make_osc(patch, 0)) = Len(patch.oscs)
       /\ {make_osc(patch, 0)[x] : x \in DOMAIN make_osc(patch, 0)}
             = 0..(Len(patch.oscs) - 1)

\* Settings of one oscillator and one to MaxEnvs envelopes (told apart by
\* their release), whose mod matrix of at most MaxMods entries routes the
\* pressure or an envelope to the gain or the filter, at depth 1 or 2
InitEnv ==
    \E n \in 1..MaxEnvs : \E k \in 0..MaxMods :
       \E mm \in [1..k -> {Modulation(src, t, d) :
                              src \in {ModSourcePressure}
                                         \cup {Envelope(i) : i \in 0..(n - 1)},
                              t \in {Gain, FilterCutoff}, d \in 1..2}] :
          InitPatch(Settings(<<Oscillator(1, Mix(0))>>, [j \in 1..n |-> j], mm))

NextEnv == \E i \in 0..MaxEnvs : RemoveEnv(i)

SpecEnv == InitEnv /\ [][NextEnv]_vars

\* the positions of the mod matrix mm whose source is not envelope k
EnvSurvivors(mm, k) == {x \in DOMAIN mm : mm[x].source # Envelope(k)}

\* C18: remove_env(k) on an existing envelope removes the mod-matrix entries
\* whose source is Envelope(k), turns a source Envelope(n) with n > k into
\* Envelope(n - 1), and leaves the sources Envelope(n) with n < k and the
\* other sources as they are; target and depth of the surviving entries do
\* not change, and they keep their order.
C18_RemoveEnvModMatrix ==
    [][(op' # op \/ patch' # patch) /\ op'[1] = "remove_env"
          /\ op'[2] < Len(patch.envs) =>
         LET k == op'[2]
             old == patch.mod_matrix
             new == patch'.mod_matrix
             S == EnvSurvivors(old, k)
         IN  /\ Len(new) = Cardinality(S)
             /\ \A x \in S :
                   LET was == old[x]
                       now == new[Rank(S, x)]
                   IN  /\ now.target = was.target
                       /\ now.depth = was.depth
                       /\ now.source =
                             IF was.source[1] = "Envelope" /\ was.source[2] > k
                             THEN Envelope(was.source[2] - 1)
                             ELSE was.source]_vars

\* remove_env(0) left the second envelope alone: the entry of the pressure
\* was kept and the entry of the second envelope renumbered
C18_Witness ==
    /\ op = <<"remove_env", 0>>
    /\ patch.envs = <<2>>
    /\ patch.mod_matrix = <<Modulation(ModSourcePressure, Gain, 2),
                            Modulation(Envelope(0), FilterCutoff, 1)>>

\* Settings of one oscillator and one envelope, whose mod matrix of at most
\* MaxMods entries routes the pressure or the mod wheel to the gain, the
\* filter, the level or the pitch of the oscillator at depth 2 or 3; the
\* pressure reads 2 or 3 at the sample, the mod wheel 2 or 5, the rest 1
InitDsp ==
    \E k \in 0..MaxMods : \E p \in 2..3, w \in {2, 5} :
       \E mm \in [1..k -> {Modulation(src, t, d) :
                              src \in {ModSourcePressure, ModSourceModulation},
                              t \in {Gain, FilterCutoff, Level(0), ModTargetPitch(0)},
                              d \in 2..3}] :
          /\ InitTransport(NoTracks, [i \in Tracks |-> SynthNew], DEFAULT_TEMPO)
          /\ InitEdit(Settings(<<Oscillator(1, Mix(0))>>, <<1>>, mm),
                      [x \in mod_sources(SettingsNew) |->
                         IF x = ModSourcePressure THEN p
                         ELSE IF x = ModSourceModulation THEN w ELSE 1])

NextDsp == \E target \in mod_targets(patch) : DspComponent(target)

SpecDsp == InitDsp /\ [][NextDsp]_vars

\* the sum and the product of the values of f over the set S
RECURSIVE SumOf(_, _), ProductOf(_, _)
SumOf(f, S) ==
    IF S = {} THEN 0
    ELSE LET x == CHOOSE y \in S : TRUE IN f[x] + SumOf(f, S \ {x})

ProductOf(f, S) ==
    IF S = {} THEN 1
    ELSE LET x == CHOOSE y \in S : TRUE IN f[x] * ProductOf(f, S \ {x})

\* C20: the combined modulation value of a target is, for the additive
\* targets (Pitch, FinePitch, Duty, FilterCutoff), the sum over the entries
\* of that target of source value times depth, 0 without entries; for the
\* multiplicative targets (Gain, Level) the product of the source values,
\* the depth unused, 1 without entries; entries of other targets do not
\* contribute.
C20_CombinedModulation ==
    op[1] = "dsp_component" =>
       LET target == op[2]
           mm == patch.mod_matrix
           own == {x \in DOMAIN mm : mm[x].target = target}
       IN  IF target[1] \in {"Pitch", "FinePitch", "Duty", "FilterCutoff"}
           THEN net = SumOf([x \in own |-> sample[mm[x].source] * mm[x].depth], own)
           ELSE net = ProductOf([x \in own |-> sample[mm[x].source]], own)

\* the gain of a patch with two Gain entries of depths 2 and 3 was combined
\* at pressure 3 and mod wheel 5: 15, the product without the depths
C20_Witness ==
    /\ op = <<"dsp_component", Gain>>
    /\ patch.mod_matrix = <<Modulation(ModSourcePressure, Gain, 2),
                            Modulation(ModSourceModulation, Gain, 3)>>
    /\ sample[ModSourcePressure] = 3
    /\ sample[ModSourceModulation] = 5
    /\ net = 15

\* ------------------------------------------------------------- render
\* render's dt, block_size / sample_rate = 64 / 44100 s: about 1.4 time
\* units, taken as one
RenderDt == 1

\* while player.playing && time_since_loop < LOOP_FADEOUT_TIME
Rendering == playing /\ time_since_loop < LOOP_FADEOUT_TIME * UnitsPerSecond

\* render up to the loop: Player::new(seq, module.tracks.len()), play()
RenderStart ==
    /\ ~playing /\ tick = 0 /\ ~looped /\ time_since_loop = 0
    /\ Play
    /\ UNCHANGED <<time_since_loop, fx>>

\* mutant: time_since_loop is never advanced
RenderStep_NoFade ==
    /\ Rendering
    /\ Advance(RenderDt, FALSE)
    /\ UNCHANGED <<time_since_loop, fx>>

\* one pass of render's loop: frame, then the fade-out clock
RenderStep ==
    /\ Rendering
    /\ Advance(RenderDt, FALSE)
    /\ time_since_loop' = IF looped' THEN time_since_loop + RenderDt
                          ELSE time_since_loop
    /\ UNCHANGED fx

\* Modules with and without End and Loop events in track 0; the looping
\* ones play no note
RenderSongs ==
    {Song(<<End(3)>>, <<Pitch(0, 60)>>, <<>>),
     Song(<<End(0)>>, <<>>, <<NoteOff(1)>>),
     Song(<<Loop(1), End(3)>>, <<NoteOff(2)>>, <<>>),
     Song(<<Loop(0), End(1)>>, <<>>, <<>>),
     Song(<<>>, <<Pitch(0, 60), NoteOff(2)>>, <<>>),
     Song(<<Loop(1)>>, <<NoteOff(3)>>, <<>>)}

NextRender == RenderStart \/ RenderStep

\* render runs its loop to the end: the loop body is always taken while its
\* condition holds
SpecRender == InitPlay(RenderSongs) /\ [][NextRender]_vars /\ WF_vars(RenderStep)

\* the tick of the last event of the module, 0 without events
LastTick ==
    LET ticks == {e.tick : e \in UNION {TrackEvents(module, t) :
                                            t \in DOMAIN module.tracks}}
    IN  IF ticks = {} THEN 0 ELSE SetMax(ticks)

\* C22: render stops for every module, with or without End: the fade-out
\* lasts no longer than LOOP_FADEOUT_TIME (up to the block in which the time
\* runs out), and a render that has not looped does not go on once the
\* clock has passed the last event of the module.
C22_RenderTerminates ==
    /\ time_since_loop < LOOP_FADEOUT_TIME * UnitsPerSecond + RenderDt
    /\ Rendering /\ ~looped => tick <= LastTick

\* C22 amended: render stops for every module whose track 0 holds an End
\* event, and the fade-out lasts no longer than LOOP_FADEOUT_TIME (up to the
\* block in which the time runs out).
C22_RenderOfEndTerminates ==
    /\ [](time_since_loop < LOOP_FADEOUT_TIME * UnitsPerSecond + RenderDt)
    /\ (Rendering /\ EndTicks # {}) ~> ~Rendering

\* render has looped and faded out to the end
C22_Witness ==
    /\ playing /\ looped
    /\ time_since_loop = LOOP_FADEOUT_TIME * UnitsPerSecond

\* ------------------------------------------------------------- clearing
\* Notes of every origin on the synths of a module of two tracks, the
\* transport keys, and the notes of one origin taken away
NextClear ==
    \/ Calls({0, 1}, {60}, {0}, {0}, {0}, {})
    \/ \E origin \in Origins : ClearNotes(origin)
    \/ Play
    \/ Stop

SpecClear == InitPlay({Song(<<>>, <<>>, <<>>)}) /\ [][NextClear]_vars

\* from the synths ss and the events q to tt and r: every voice pooled
\* under a Key of the origin is released and out of its pool, every other
\* voice is in its pool as before with its gate as it was, and no pool
\* gained a Key
ClearedExactly(origin, ss, q, tt, r) ==
    \A i \in DOMAIN ss :
       /\ DOMAIN tt[i].voices \subseteq DOMAIN ss[i].voices
       /\ \A k \in DOMAIN ss[i].voices :
             IF k.origin = origin
             THEN /\ k \notin DOMAIN tt[i].voices
                  /\ r[ss[i].voices[k].event_id].gate = 0
                  /\ r[ss[i].voices[k].event_id].end # INFINITY
             ELSE /\ k \in DOMAIN tt[i].voices
                  /\ tt[i].voices[k] = ss[i].voices[k]
                  /\ r[ss[i].voices[k].event_id] = q[ss[i].voices[k].event_id]

vec_len(v) == Cardinality(DOMAIN v)

vec_insert(v, i, x) ==
    [j \in 0..vec_len(v) |-> IF j < i THEN v[j] ELSE IF j = i THEN x ELSE v[j - 1]]

vec_remove(v, i) ==
    [j \in 0..(vec_len(v) - 2) |-> IF j < i THEN v[j] ELSE v[j + 1]]

\* Edit::InsertTrack(index, track), Edit::RemoveTrack(index)
InsertTrack(index, track) ==
    [type |-> "InsertTrack", index |-> index, track |-> track]

RemoveTrack(index) == [type |-> "RemoveTrack", index |-> index]

\* TrackEdit::Insert(index), TrackEdit::Remove(index)
TrackEditInsert(index) == <<"Insert", index>>
TrackEditRemove(index) == <<"Remove", index>>

\* Track::new(target): one empty channel
TrackNew(target, index) == Track(target, index, <<<<>>>>)

\* Position { tick, track, channel, column }
Position(t, track, channel, column) ==
    [tick |-> t, track |-> track, channel |-> channel, column |-> column]

\* LocatedEvent { track, channel, event }
LocatedEvent(track, channel, event) ==
    [track |-> track, channel |-> channel, event |-> event]

\* LocatedEvent::position
position(le) ==
    Position(le.event.tick, le.track, le.channel, logical_column(le.event))

\* Edit::PatternData { remove, add }
PatternData(remove, add) ==
    [type |-> "PatternData", remove |-> remove, add |-> add]

\* (e.tick, e.data.spatial_column()) of x is at most that of y
KeyLeq(x, y) ==
    \/ x.tick < y.tick
    \/ x.tick = y.tick /\ spatial_column(x) <= spatial_column(y)

\* mutant: the events stay as they were pushed
sort_events_Unsorted(events) == events

\* Channel::sort_events: sort_by_key is stable, events of equal key keep
\* their order
RECURSIVE sort_events(_)
sort_events(events) ==
    IF events = <<>> THEN <<>>
    ELSE LET rest == sort_events(SubSeq(events, 1, Len(events) - 1))
             x == events[Len(events)]
             n == Cardinality({j \in 1..Len(rest) : KeyLeq(rest[j], x)})
         IN  SubSeq(rest, 1, n) \o <<x>> \o SubSeq(rest, n + 1, Len(rest))

\* Module::delete_event: removes the first event at the position, if any
delete_event(m, pos) ==
    LET events == m.tracks[pos.track].channels[pos.channel]
        found == {j \in 1..Len(events) :
                    events[j].tick = pos.tick /\ logical_column(events[j]) = pos.column}
    IN  IF found = {} THEN [module |-> m, event |-> None]
        ELSE LET i == CHOOSE j \in found : \A k \in found : j <= k
             IN  [module |-> [m EXCEPT !.tracks[pos.track].channels[pos.channel] =
                                          VecRemove(events, i - 1)],
                  event |-> Some(events[i])]

\* mutant: the deleted events are forgotten
RECURSIVE DeleteAll_Forgets(_, _, _)
DeleteAll_Forgets(m, remove, deleted) ==
    IF remove = <<>> THEN [module |-> m, deleted |-> <<>>]
    ELSE DeleteAll_Forgets(delete_event(m, remove[1]).module, Tail(remove), deleted)

\* flip_edit, PatternData: the positions of remove are deleted one after
\* another; the result carries the deleted events, located
RECURSIVE DeleteAll(_, _, _)
DeleteAll(m, remove, deleted) ==
    IF remove = <<>> THEN [module |-> m, deleted |-> deleted]
    ELSE LET r == delete_event(m, remove[1])
         IN  DeleteAll(r.module, Tail(remove),
                IF r.event.some
                THEN Append(deleted, LocatedEvent(remove[1].track, remove[1].channel,
                                                  r.event.value))
                ELSE deleted)

\* the events of add are pushed onto their channels
RECURSIVE PushAll(_, _)
PushAll(m, add) ==
    IF add = <<>> THEN m
    ELSE PushAll([m EXCEPT !.tracks[add[1].track].channels[add[1].channel] =
                              Append(@, add[1].event)],
                 Tail(add))

\* for (track, channel) in modified_channels: sort_events()
SortModified(m, add) ==
    LET modified == {<<add[j].track, add[j].channel>> : j \in 1..Len(add)}
    IN  [m EXCEPT !.tracks =
           [t \in DOMAIN m.tracks |->
              [m.tracks[t] EXCEPT !.channels =
                 [c \in DOMAIN m.tracks[t].channels |->
                    IF <<t, c>> \in modified
                    THEN sort_events(m.tracks[t].channels[c])
                    ELSE m.tracks[t].channels[c]]]]]

\* Edit::InsertPatch(index, patch), Edit::RemovePatch(index)
InsertPatch(index, p) == [type |-> "InsertPatch", index |-> index, patch |-> p]

RemovePatch(index) == [type |-> "RemovePatch", index |-> index]

\* Vec::insert on a sequence, the index counted from 0
VecInsert(v, i, x) ==
    [j \in 1..(Len(v) + 1) |-> IF j <= i THEN v[j] ELSE IF j = i + 1 THEN x ELSE v[j - 1]]

\* self.kit.retain(|x| x.patch_index != index)
RECURSIVE KitRetain(_, _)
KitRetain(kit, index) ==
    IF kit = <<>> THEN <<>>
    ELSE (IF kit[1].patch_index # index THEN <<kit[1]>> ELSE <<>>)
            \o KitRetain(Tail(kit), index)

\* Module::remove_patch: the patch goes, the kit entries of the patch go,
\* the entries and track targets above it move down, and the tracks that
\* played the patch play nothing
remove_patch(m, index) ==
    LET kept == KitRetain(m.kit, index)
    IN  [m EXCEPT
           !.patches = VecRemove(@, index),
           !.kit = [j \in 1..Len(kept) |->
                      IF kept[j].patch_index > index
                      THEN [kept[j] EXCEPT !.patch_index = @ - 1] ELSE kept[j]],
           !.tracks = [t \in DOMAIN m.tracks |->
                         LET tr == m.tracks[t]
                         IN  IF tr.target = "Patch" /\ tr.index = index
                             THEN [tr EXCEPT !.target = "None", !.index = 0]
                             ELSE IF tr.target = "Patch" /\ tr.index > index
                             THEN [tr EXCEPT !.index = @ - 1]
                             ELSE tr]]

\* ChannelCoords { track, channel }
ChannelCoords(track, channel) == [track |-> track, channel |-> channel]

\* Edit::ShiftEvents { channels, start, distance, insert }
ShiftEvents(channels, start, distance, insert) ==
    [type |-> "ShiftEvents", channels |-> channels, start |-> start,
     distance |-> distance, insert |-> insert]

\* mutant: a negative shift deletes nothing
shift_events_NoDelete(events, start, distance) ==
    [events |-> sort_events(
        [j \in 1..Len(events) |->
           IF events[j].tick >= start
           THEN [events[j] EXCEPT !.tick = IF @ + distance > 0 THEN @ + distance ELSE 0]
           ELSE events[j]]),
     deleted |-> <<>>]

\* Channel::shift_events: the events left in the channel, and those deleted
shift_events(events, start, distance) ==
    LET Keep(e) == e.tick < start \/ e.tick >= start - distance
        Pass(e) == ~Keep(e)
        keep == IF distance < 0 THEN SelectSeq(events, Keep) ELSE events
    IN  [events |-> sort_events(
            [j \in 1..Len(keep) |->
               IF keep[j].tick >= start
               THEN [keep[j] EXCEPT !.tick = IF @ + distance > 0 THEN @ + distance ELSE 0]
               ELSE keep[j]]),
         deleted |-> IF distance < 0 THEN SelectSeq(events, Pass) ELSE <<>>]

\* flip_edit, ShiftEvents: the channels are shifted one after another; the
\* result carries the deleted events, located
RECURSIVE ShiftAll(_, _, _, _, _)
ShiftAll(m, channels, start, distance, deleted) ==
    IF channels = <<>> THEN [module |-> m, deleted |-> deleted]
    ELSE LET co == channels[1]
             r == shift_events(m.tracks[co.track].channels[co.channel], start, distance)
         IN  ShiftAll([m EXCEPT !.tracks[co.track].channels[co.channel] = r.events],
                      Tail(channels), start, distance,
                      deleted \o [j \in 1..Len(r.deleted) |->
                                    LocatedEvent(co.track, co.channel, r.deleted[j])])

\* the channel exists
HasChannel(m, track, channel) ==
    track \in DOMAIN m.tracks /\ channel \in DOMAIN m.tracks[track].channels

\* Edit::ReplaceEvents(events)
ReplaceEvents(events) == [type |-> "ReplaceEvents", events |-> events]

\* Module::event_at / Module::replace_event: the data of the event at the
\* position of new_evt is replaced in place; the result carries the old
\* event, or new_evt where there was none
replace_event(m, new_evt) ==
    LET pos == position(new_evt)
        events == IF HasChannel(m, pos.track, pos.channel)
                  THEN m.tracks[pos.track].channels[pos.channel] ELSE <<>>
        found == {j \in 1..Len(events) :
                    events[j].tick = pos.tick /\ logical_column(events[j]) = pos.column}
    IN  IF found = {} THEN [module |-> m, old |-> new_evt]
        ELSE LET i == CHOOSE j \in found : \A k \in found : j <= k
             IN  [module |-> [m EXCEPT !.tracks[pos.track].channels[pos.channel][i] =
                                          new_evt.event],
                  old |-> [new_evt EXCEPT !.event = events[i]]]

\* flip_edit, ReplaceEvents: the events are replaced one after another
RECURSIVE ReplaceAll(_, _, _)
ReplaceAll(m, events, olds) ==
    IF events = <<>> THEN [module |-> m, olds |-> olds]
    ELSE LET r == replace_event(m, events[1])
         IN  ReplaceAll(r.module, Tail(events), Append(olds, r.old))

\* Module::flip_edit: performs the edit on the module and returns the edit
\* that undoes it
flip_edit(m, e) ==
    CASE e.type = "InsertTrack" ->
           LET ts == vec_insert(m.tracks, e.index, e.track)
           IN  [module |-> [m EXCEPT !.tracks = ts,
                              !.track_history = Append(@, TrackEditInsert(e.index))],
                edit |-> RemoveTrack(vec_len(ts) - 1)]
      [] e.type = "RemoveTrack" ->
           [module |-> [m EXCEPT !.tracks = vec_remove(@, e.index),
                          !.track_history = Append(@, TrackEditRemove(e.index))],
            edit |-> InsertTrack(e.index, m.tracks[e.index])]
      [] e.type = "PatternData" ->
           LET d == DeleteAll(m, e.remove, <<>>)
           IN  [module |-> SortModified(PushAll(d.module, e.add), e.add),
                edit |-> PatternData([j \in 1..Len(e.add) |-> position(e.add[j])],
                                     d.deleted)]
      [] e.type = "InsertPatch" ->
           [module |-> [m EXCEPT !.patches = VecInsert(@, e.index, e.patch)],
            edit |-> RemovePatch(e.index)]
      [] e.type = "RemovePatch" ->
           [module |-> remove_patch(m, e.index),
            edit |-> InsertPatch(e.index, m.patches[e.index + 1])]
      [] e.type = "ShiftEvents" ->
           LET d == ShiftAll(m, e.channels, e.start, e.distance, <<>>)
           IN  [module |-> SortModified(PushAll(d.module, e.insert), e.insert),
                edit |-> ShiftEvents(e.channels, e.start, 0 - e.distance, d.deleted)]
      [] e.type = "ReplaceEvents" ->
           LET d == ReplaceAll(m, e.events, <<>>)
           IN  [module |-> d.module, edit |-> ReplaceEvents(d.olds)]

\* the edit is one the vectors accept: Vec::insert and Vec::remove panic on
\* an index past the end, and so does indexing tracks and channels
InRange(m, e) ==
    CASE e.type = "InsertTrack" -> e.index <= vec_len(m.tracks)
      [] e.type = "RemoveTrack" -> e.index < vec_len(m.tracks)
      [] e.type = "PatternData" ->
           /\ \A j \in 1..Len(e.remove) :
                 HasChannel(m, e.remove[j].track, e.remove[j].channel)
           /\ \A j \in 1..Len(e.add) : HasChannel(m, e.add[j].track, e.add[j].channel)
      [] e.type = "InsertPatch" -> e.index <= Len(m.patches)
      [] e.type = "RemovePatch" -> e.index < Len(m.patches)
      [] e.type = "ShiftEvents" ->
           /\ \A j \in 1..Len(e.channels) :
                 HasChannel(m, e.channels[j].track, e.channels[j].channel)
           /\ \A j \in 1..Len(e.insert) :
                 HasChannel(m, e.insert[j].track, e.insert[j].channel)
      [] e.type = "ReplaceEvents" -> TRUE

\* Module::push_edit
push_edit(m, e) ==
    LET r == flip_edit(m, e)
    IN  [r.module EXCEPT !.undo_stack = Append(@, r.edit), !.redo_stack = <<>>]

Pop(stack) == SubSeq(stack, 1, Len(stack) - 1)

\* Module::undo on a stack that holds an edit
undo(m) ==
    LET r == flip_edit([m EXCEPT !.undo_stack = Pop(@)], m.undo_stack[Len(m.undo_stack)])
    IN  [r.module EXCEPT !.redo_stack = Append(@, r.edit)]

\* Module::redo on a stack that holds an edit
redo(m) ==
    LET r == flip_edit([m EXCEPT !.redo_stack = Pop(@)], m.redo_stack[Len(m.redo_stack)])
    IN  [r.module EXCEPT !.undo_stack = Append(@, r.edit)]

\* Player::update_synths: a new Synth per inserted track, in the order of
\* the edits
RECURSIVE update_synths(_, _)
update_synths(ss, edits) ==
    IF edits = <<>> THEN ss
    ELSE update_synths(IF edits[1][1] = "Insert"
                       THEN vec_insert(ss, edits[1][2], SynthNew)
                       ELSE vec_remove(ss, edits[1][2]),
                       Tail(edits))

\* The module m after a call, and
\* player.update_synths(module.drain_track_history())
Edited(m, call) ==
    /\ module' = [m EXCEPT !.track_history = <<>>]
    /\ synths' = update_synths(synths, m.track_history)
    /\ op' = call
    /\ UNCHANGED <<seq, hist, clock, log, count, patch, sample, net,
                   time_since_loop, fx>>

\* Module::push_edit of an edit its vectors accept
PushEdit(e) ==
    /\ InRange(module, e)
    /\ Edited(push_edit(module, e), <<"push_edit", e>>)

\* Module::add_track
AddTrack ==
    PushEdit(InsertTrack(vec_len(module.tracks), TrackNew("Patch", 0)))

\* Ctrl+Z
Undo ==
    /\ module.undo_stack # <<>>
    /\ InRange(module, module.undo_stack[Len(module.undo_stack)])
    /\ Edited(undo(module), <<"undo">>)

\* Ctrl+Y
Redo ==
    /\ module.redo_stack # <<>>
    /\ InRange(module, module.redo_stack[Len(module.redo_stack)])
    /\ Edited(redo(module), <<"redo">>)

\* ------------------------------------------------------------- track edits
\* Module::new: the control track, the kit track and one patch track
ModuleNew ==
    Module(<<>>, <<"Init">>,
           <<TrackNew("Global", 0), TrackNew("Kit", 0), TrackNew("Patch", 0)>>)

\* Tracks are added and removed, edits undone and redone, and the play mode
\* of a track's Synth is set in between; the control track stays
NextTracks ==
    \/ vec_len(module.tracks) < MaxTracks /\ Len(module.undo_stack) < MaxEdits
         /\ AddTrack
    \/ \E i \in 1..(MaxTracks - 1) :
          Len(module.undo_stack) < MaxEdits /\ PushEdit(RemoveTrack(i))
    \/ Undo
    \/ Redo
    \/ \E t \in 0..MaxTracks :
          SetPlayMode(t, "Mono") /\ UNCHANGED <<hist, song>>

SpecTracks == InitPlay({ModuleNew}) /\ [][NextTracks]_vars

\* the step edits the track list at index i, and the Synths with it
InStep(i) ==
    \/ /\ i <= vec_len(module.tracks) /\ i \in DOMAIN module'.tracks
       /\ module'.tracks = vec_insert(module.tracks, i, module'.tracks[i])
       /\ synths' = vec_insert(synths, i, SynthNew)
    \/ /\ i < vec_len(module.tracks)
       /\ module'.tracks = vec_remove(module.tracks, i)
       /\ synths' = vec_remove(synths, i)

\* An edit of the track list at one index leaves every other track with the
\* Synth it had
SynthsFollowTracks ==
    [][module' # module => \E i \in 0..MaxTracks : InStep(i)]_vars

\* C24: the Player holds one Synth per track of the module, at the track's
\* index: as many Synths as tracks at every point, and an edit of the track
\* list at one index leaves every other track with the Synth it had
C24_SynthPerTrack ==
    /\ [](vec_len(synths) = vec_len(module.tracks))
    /\ SynthsFollowTracks

\* the track list after the edit e and then the edit flip_edit returned
Restored(m, e) ==
    LET r == flip_edit(m, e)
    IN  flip_edit(r.module, r.edit).module.tracks

\* C27: flip_edit returns the inverse of a track edit: on every track list,
\* InsertTrack(i, t) or RemoveTrack(i) followed by the returned edit gives
\* the list back; after push_edit(e), undo() and redo() give the list that
\* push_edit(e) gave, and one more undo() the list before it
C27_FlipEditInverse ==
    /\ \A i \in 0..vec_len(module.tracks) :
          Restored(module, InsertTrack(i, TrackNew("None", 0))) = module.tracks
    /\ \A i \in 0..(vec_len(module.tracks) - 1) :
          Restored(module, RemoveTrack(i)) = module.tracks
    /\ op[1] = "push_edit" =>
          /\ redo(undo(module)).tracks = module.tracks
          /\ undo(redo(undo(module))).tracks = undo(module).tracks

\* ------------------------------------------------------------- note mapping
\* Modules with one kit entry (note 60) and one patch: a control track, and
\* a track of each target, Patch(1) naming a patch the module lacks
MapSongs ==
    {Module(<<KitEntry(60, 0, 64)>>, <<"Init">>,
            <<Track("Global", 0, <<ctrl>>), Track(tg[1], tg[2], <<ch>>)>>) :
        ctrl \in {<<>>, <<Pitch(2, 60)>>},
        tg \in {<<"None", 0>>, <<"Kit", 0>>, <<"Patch", 0>>, <<"Patch", 1>>},
        ch \in {<<Pitch(1, 60)>>, <<Pitch(1, 62), NoteOff(3)>>}}

SpecMap == InitPlay(MapSongs) /\ [][NextPlay]_vars

\* the dispatched event x is a Pitch event on a track that maps it to nothing
Unmapped(x) ==
    LET t == module.tracks[x.track]
    IN  /\ x.event.type = "Pitch"
        /\ \/ t.target \in {"None", "Global"}
           \/ t.target = "Patch" /\ t.index >= Len(module.patches)
           \/ t.target = "Kit"
                /\ \A i \in 1..Len(module.kit) : module.kit[i].input_note # x.event.a

\* C25: a frame that dispatches only Pitch events on tracks whose target is
\* None or Global, a Patch the module lacks, or the Kit without an entry for
\* the note, starts no voice and leaves the Player as it was but for the
\* tick clock
C25_UnmappedPitchIgnored ==
    [][(playing /\ elapsed' > elapsed /\ log' # <<>>
          /\ \A k \in 1..Len(log') : Unmapped(log'[k]))
       => /\ synths' = synths
          /\ seq' = seq
          /\ playing' = playing
          /\ tempo' = tempo
          /\ looped' = looped]_vars

\* a frame has just dispatched the unmapped Pitch of the kit track and the
\* one on the control track, and nothing sounds
C25_Witness ==
    /\ playing /\ Len(log) = 2 /\ seq = <<>>
    /\ \A k \in 1..Len(log) : Unmapped(log[k])
    /\ \E k \in 1..Len(log) : module.tracks[log[k].track].target = "Kit"

\* ------------------------------------------------------------- nearest loop
\* Iterator::max_by_key over the ticks in iteration order: the last of the
\* ticks whose key is largest
RECURSIVE max_by_key(_, _, _)
max_by_key(ticks, at, best) ==
    IF ticks = <<>> THEN best
    ELSE max_by_key(Tail(ticks), at,
            IF ~best.some \/ Abs(ticks[1] - at) >= Abs(best.value - at)
            THEN Some(ticks[1]) ELSE best)

\* the ticks of the Loop events of track 0, channel after channel
RECURSIVE LoopsFrom(_, _)
LoopsFrom(scan, j) ==
    IF j > Len(scan) THEN <<>>
    ELSE IF scan[j].track = 0 /\ scan[j].event.type = "Loop"
    THEN <<scan[j].event.tick>> \o LoopsFrom(scan, j + 1)
    ELSE LoopsFrom(scan, j + 1)

\* Module::nearest_loop
nearest_loop(m, at) == max_by_key(LoopsFrom(Visit(m), 1), at, None)

\* the pattern editor asks for the loop start nearest to a tick
NearestLoop(t) ==
    /\ op' = <<"nearest_loop", t, nearest_loop(module, t)>>
    /\ UNCHANGED <<synths, seq, hist, clock, module, log, count, patch, sample,
                   net, time_since_loop, fx>>

\* the events of a channel: a Loop at every tick of S, a Tempo at tick 1
RECURSIVE LoopChannel(_, _)
LoopChannel(S, t) ==
    IF t > MaxTick THEN <<>>
    ELSE (IF t \in S THEN <<Loop(t)>> ELSE IF t = 1 THEN <<Tempo(1, 60)>> ELSE <<>>)
            \o LoopChannel(S, t + 1)

\* Modules whose control track has two channels, with Loop events at some of
\* the ticks 0, 2, 3, 5, 6 on either channel
LoopSongs ==
    {Module(<<>>, <<"Init">>,
            <<Track("Global", 0, <<LoopChannel({t \in DOMAIN f : f[t] = 1}, 0),
                                   LoopChannel({t \in DOMAIN f : f[t] = 2}, 0)>>),
              TrackNew("Patch", 0)>>) :
        f \in [{0, 2, 3, 5, 6} -> {0, 1, 2}]}

SpecLoop == InitPlay(LoopSongs) /\ [][\E t \in 0..MaxTick : NearestLoop(t)]_vars

\* C26: nearest_loop(tick) returns the tick of the Loop event of track 0
\* that lies nearest to tick, and None when track 0 holds no Loop event
C26_NearestLoop ==
    op[1] = "nearest_loop" =>
       LET r == op[3]
       IN  IF LoopTicks = {} THEN ~r.some
           ELSE /\ r.some
                /\ r.value \in LoopTicks
                /\ \A t \in LoopTicks : Abs(r.value - op[2]) <= Abs(t - op[2])

\* ------------------------------------------------------------- pattern edits
\* Module::insert_event
InsertEvent(track, channel, event) ==
    PushEdit(PatternData(
        <<Position(event.tick, track, channel, logical_column(event))>>,
        <<LocatedEvent(track, channel, event)>>))

\* the events the pattern editor enters: notes, a pressure, and a glide on
\* the note column
Entered ==
    {Pitch(0, 60), Pitch(1, 60), NoteOff(0), Pressure(0, 9),
     StartGlide(0, NOTE_COLUMN)}

\* Events are entered on the patch track of a new module, undone and redone
NextEvents ==
    \/ \E event \in Entered :
          Len(module.undo_stack) < MaxEdits /\ InsertEvent(2, 0, event)
    \/ Undo
    \/ Redo

SpecEvents == InitPlay({ModuleNew}) /\ [][NextEvents]_vars

\* the step is a call of insert_event
Inserts == op'[1] = "push_edit" /\ op'[2].type = "PatternData" /\ module' # module

\* the events of the channel the edit on top of the undo stack of m added to
EditedChannel(m, n) ==
    LET le == n.undo_stack[Len(n.undo_stack)].remove[1]
    IN  m.tracks[le.track].channels[le.channel]

\* no two events of the channel share tick and logical column
OnePerCell(events) ==
    \A i, j \in 1..Len(events) :
       (events[i].tick = events[j].tick
          /\ logical_column(events[i]) = logical_column(events[j])) => i = j

\* C28: insert_event followed by undo() gives the channel the event list it
\* had, the replaced event included; a redo() after that gives the list the
\* insertion gave; and no channel ever holds two events at one tick and
\* logical column
C28_InsertEventUndo ==
    /\ [](\A t \in DOMAIN module.tracks : \A c \in DOMAIN module.tracks[t].channels :
            OnePerCell(module.tracks[t].channels[c]))
    /\ [][Inserts =>
            /\ EditedChannel(undo(module'), module') = EditedChannel(module, module')
            /\ EditedChannel(redo(undo(module')), module')
                 = EditedChannel(module', module')]_vars

\* the events of a list, whatever their order
EventSet(events) == {events[j] : j \in 1..Len(events)}

\* C28, amended: undo() gives the channel the events it had, the replaced
\* event included and in the order of their ticks and spatial columns;
\* events that share tick and spatial column may change places
C28_InsertEventUndoUpToTies ==
    /\ [](\A t \in DOMAIN module.tracks : \A c \in DOMAIN module.tracks[t].channels :
            OnePerCell(module.tracks[t].channels[c]))
    /\ [][Inserts =>
            LET before == EditedChannel(module, module')
                undone == EditedChannel(undo(module'), module')
            IN  /\ EventSet(undone) = EventSet(before)
                /\ Len(undone) = Len(before)
                /\ \A j \in 1..(Len(undone) - 1) : KeyLeq(undone[j], undone[j + 1])
                /\ EditedChannel(redo(undo(module')), module')
                     = EditedChannel(module', module')]_vars

\* an event was just entered in place of another at its tick and column
C28_Witness ==
    /\ op[1] = "push_edit" /\ op[2].type = "PatternData"
    /\ module.undo_stack # <<>>
    /\ Len(module.undo_stack[Len(module.undo_stack)].add) = 1
    /\ Len(module.tracks[2].channels[0]) > 1

\* ------------------------------------------------------------- patch edits
\* Modules with three patches, two kit entries and two instrument tracks:
\* every way the entries and the tracks can name the patches
PatchSongs ==
    {Module(<<KitEntry(60, k[1], 60), KitEntry(62, k[2], 64)>>, <<"A", "B", "C">>,
            <<TrackNew("Global", 0), TrackNew("Kit", 0),
              TrackNew("Patch", tg[1]), TrackNew("Patch", tg[2])>>) :
        k \in (0..2) \X (0..2), tg \in (0..2) \X (0..2)}

\* Patches are removed, and the removals undone and redone
NextPatches ==
    \/ \E i \in 0..2 :
          Len(module.undo_stack) < MaxEdits /\ PushEdit(RemovePatch(i))
    \/ Undo
    \/ Redo

SpecPatches == InitPlay(PatchSongs) /\ [][NextPatches]_vars

\* C29: push_edit(RemovePatch(i)) followed by undo() gives back the patch
\* list, every kit entry and every track target as they were before the
\* removal
C29_RemovePatchUndo ==
    [][(op'[1] = "push_edit" /\ op'[2].type = "RemovePatch" /\ module' # module)
       => LET u == undo(module')
          IN  /\ u.patches = module.patches
              /\ u.kit = module.kit
              /\ \A t \in DOMAIN module.tracks :
                    /\ u.tracks[t].target = module.tracks[t].target
                    /\ u.tracks[t].index = module.tracks[t].index]_vars

\* ------------------------------------------------------------- shifts
\* (track, channel) of x is at most that of y
CoordsLeq(x, y) == x[1] < y[1] \/ (x[1] = y[1] /\ x[2] <= y[2])

\* the channels of the module from (t, c) on that lie between the corners
\* x_start and x_end of the selection
RECURSIVE ChannelsBetween(_, _, _, _, _)
ChannelsBetween(m, t, c, x_start, x_end) ==
    IF t \notin DOMAIN m.tracks THEN <<>>
    ELSE IF c \notin DOMAIN m.tracks[t].channels
    THEN ChannelsBetween(m, t + 1, 0, x_start, x_end)
    ELSE (IF CoordsLeq(x_start, <<t, c>>) /\ CoordsLeq(<<t, c>>, x_end)
          THEN <<ChannelCoords(t, c)>> ELSE <<>>)
            \o ChannelsBetween(m, t, c + 1, x_start, x_end)

\* Module::shift_channel_events
ShiftChannelEvents(start, end, distance) ==
    PushEdit(ShiftEvents(
        ChannelsBetween(module, 0, 0, <<start.track, start.channel>>,
                        <<end.track, end.channel>>),
        start.tick, distance, <<>>))

\* Modules whose kit track has one channel and whose patch track has two,
\* with notes and pressures on the first ticks
ShiftSongs ==
    {Module(<<>>, <<"Init">>,
            <<TrackNew("Global", 0), Track("Kit", 0, <<k>>),
              Track("Patch", 0, <<p0, p1>>)>>) :
        k \in {<<Pitch(0, 60), Pitch(2, 62)>>, <<Pitch(1, 60), Pressure(1, 9)>>},
        p0 \in {<<Pitch(0, 60), Pitch(1, 62), NoteOff(3)>>,
                <<Pitch(1, 60), Pressure(2, 9), NoteOff(2)>>,
                <<Pressure(0, 9)>>},
        p1 \in {<<>>, <<Pitch(2, 60), NoteOff(3)>>}}

\* Rows are inserted and deleted in a selection of channels, and the shifts
\* undone and redone
NextShift ==
    \/ \E t \in {0, 2}, sel \in {<<1, 2, 0>>, <<2, 2, 1>>}, d \in {-2, -1, 1} :
          /\ Len(module.undo_stack) < MaxShifts
          /\ ShiftChannelEvents(Position(t, sel[1], 0, NOTE_COLUMN),
                                Position(t, sel[2], sel[3], NOTE_COLUMN), d)
    \/ Undo
    \/ Redo

SpecShift == InitPlay(ShiftSongs) /\ [][NextShift]_vars

\* the step is a call of shift_channel_events
Shifts == op'[1] = "push_edit" /\ op'[2].type = "ShiftEvents" /\ module' # module

\* the events of a channel of m, whatever their order
ChannelSet(m, t, c) == EventSet(m.tracks[t].channels[c])

\* the event moved by the distance d
Moved(e, d) == [e EXCEPT !.tick = @ + d]

\* C30: shift_channel_events followed by undo() gives every affected channel
\* the events it had. A negative shift deletes the events from start up to
\* start - distance and moves the later ones earlier by the distance, a
\* positive shift moves the events from start on later; events before start
\* and channels outside the selection are left alone
C30_ShiftUndo ==
    [][Shifts =>
        LET start == op'[2].start
            d == op'[2].distance
            affected == {<<op'[2].channels[j].track, op'[2].channels[j].channel>> :
                           j \in 1..Len(op'[2].channels)}
            from == IF d < 0 THEN start - d ELSE start
        IN  \A t \in DOMAIN module.tracks : \A c \in DOMAIN module.tracks[t].channels :
               LET before == ChannelSet(module, t, c)
               IN  /\ <<t, c>> \notin affected =>
                         module'.tracks[t].channels[c] = module.tracks[t].channels[c]
                   /\ <<t, c>> \in affected =>
                         ChannelSet(module', t, c)
                           = {e \in before : e.tick < start}
                               \cup {Moved(e, d) : e \in {x \in before : x.tick >= from}}
                   /\ ChannelSet(undo(module'), t, c) = before
                   /\ Len(undo(module').tracks[t].channels[c])
                        = Len(module.tracks[t].channels[c])]_vars

\* a negative shift has just deleted an event of the selection and moved
\* another one earlier
C30_Witness ==
    /\ op[1] = "push_edit" /\ op[2].type = "ShiftEvents" /\ op[2].distance < 0
    /\ module.undo_stack # <<>>
    /\ module.undo_stack[Len(module.undo_stack)].insert # <<>>
    /\ \E j \in 1..Len(op[2].channels) :
          \E e \in ChannelSet(module, op[2].channels[j].track, op[2].channels[j].channel) :
             e.tick >= op[2].start

\* ------------------------------------------------------------- storage order
\* the edits of the pattern editor on the patch track of a new module:
\* events entered one by one, a block pasted over two cells, a block
\* deleted, the value of a cell replaced, rows inserted and deleted
PatternEdits ==
    {PatternData(<<Position(event.tick, 2, 0, logical_column(event))>>,
                 <<LocatedEvent(2, 0, event)>>) :
        event \in {Pitch(2, 60), Pressure(1, 9), StartGlide(1, NOTE_COLUMN)}}
      \cup {PatternData(<<Position(3, 2, 0, NOTE_COLUMN), Position(0, 2, 0, NOTE_COLUMN)>>,
                        <<LocatedEvent(2, 0, NoteOff(3)), LocatedEvent(2, 0, Pitch(0, 60))>>),
            PatternData(<<Position(1, 2, 0, NOTE_COLUMN), Position(2, 2, 0, NOTE_COLUMN)>>,
                        <<>>),
            ReplaceEvents(<<LocatedEvent(2, 0, Pitch(1, 60)),
                            LocatedEvent(2, 0, Pressure(1, 3))>>)}

\* Pattern edits of every kind, undone and redone
NextStored ==
    \/ \E e \in PatternEdits : Len(module.undo_stack) < MaxEdits /\ PushEdit(e)
    \/ \E t \in 1..2, d \in {-1, 1} :
          /\ Len(module.undo_stack) < MaxEdits
          /\ ShiftChannelEvents(Position(t, 2, 0, NOTE_COLUMN),
                                Position(t, 2, 0, NOTE_COLUMN), d)
    \/ Undo
    \/ Redo

SpecStored == InitPlay({ModuleNew}) /\ [][NextStored]_vars

\* C31: after any sequence of pattern edits (PatternData, ShiftEvents,
\* ReplaceEvents), undo and redo on a new module, every channel stores its
\* events in non-decreasing order of (tick, spatial column)
C31_StoredInOrder ==
    \A t \in DOMAIN module.tracks : \A c \in DOMAIN module.tracks[t].channels :
       LET events == module.tracks[t].channels[c]
       IN  \A j \in 1..(Len(events) - 1) : KeyLeq(events[j], events[j + 1])

\* a shift was just undone or redone on a channel that holds events at
\* three ticks or more
C31_Witness ==
    /\ op[1] \in {"undo", "redo"}
    /\ \E k \in 1..Len(module.redo_stack) : module.redo_stack[k].type = "ShiftEvents"
    /\ Cardinality({module.tracks[2].channels[0][j].tick :
                      j \in 1..Len(module.tracks[2].channels[0])}) >= 3

\* ------------------------------------------------------------- global FX
\* the positions of the sliders
PredelayTimes == {1, 5, 10}
RoomSizes == {20, 30}
ReverbTimes == {2, 10}

\* the GlobalFX after a call; nothing else takes part
FxCall(g, call) ==
    /\ fx' = g
    /\ op' = call
    /\ UNCHANGED <<synths, seq, hist, clock, module, log, count, patch, sample,
                   net, time_since_loop>>

\* App::update of main.rs: one pass over the global controls with the
\* sliders at new positions
GlobalControls(new) == FxCall(global_controls(fx, new), <<"global_controls">>)

\* the predelay slider is moved and the change committed
SetPredelay(p) ==
    /\ p # fx.settings.predelay_time
    /\ FxCall(commit_predelay([fx EXCEPT !.settings.predelay_time = p,
                                         !.rebuilt = {}]),
              <<"commit_predelay">>)

\* a reverb slider is moved and the change committed
SetReverb(r, t) ==
    /\ <<r, t>> # <<fx.settings.reverb_room_size, fx.settings.reverb_time>>
    /\ FxCall(commit_reverb([fx EXCEPT !.settings.reverb_room_size = r,
                                       !.settings.reverb_time = t,
                                       !.rebuilt = {}]),
              <<"commit_reverb">>)

NextFX ==
    \/ \E p \in PredelayTimes, r \in RoomSizes, t \in ReverbTimes :
          GlobalControls(FXSettings(p, r, t))
    \/ \E p \in PredelayTimes : SetPredelay(p)
    \/ \E r \in RoomSizes, t \in ReverbTimes : SetReverb(r, t)

SpecFX == Init /\ [][NextFX]_vars

\* C32: after a change of the predelay time or of a reverb parameter was
\* committed, the subgraph in the net is one built from the values the
\* settings hold now, and the subgraph whose parameters did not change was
\* not rebuilt
C32_InstalledFromCurrent ==
    [][fx'.settings # fx.settings =>
         LET was == fx.settings
             now == fx'.settings
             predelay_changed == was.predelay_time # now.predelay_time
             reverb_changed == \/ was.reverb_room_size # now.reverb_room_size
                               \/ was.reverb_time # now.reverb_time
         IN  /\ predelay_changed => fx'.predelay = <<"delay", now.predelay_time>>
             /\ reverb_changed =>
                   fx'.reverb = <<"reverb2_stereo", now.reverb_room_size, now.reverb_time>>
             /\ ~predelay_changed =>
                   "predelay_id" \notin fx'.rebuilt /\ fx'.predelay = fx.predelay
             /\ ~reverb_changed =>
                   "reverb_id" \notin fx'.rebuilt /\ fx'.reverb = fx.reverb]_vars


\* ------------------------------------------------------------- voice pool
\* The voices some Synth's pool still holds, by sequencer event
Pooled == {id \in DOMAIN seq :
              \E t \in Tracks : \E k \in DOMAIN synths[t].voices :
                 synths[t].voices[k].event_id = id}

\* C33: no voice is orphaned: after any sequence of note_on / note_off in
\* any play mode, every voice pushed to the sequencer that is no longer in
\* a pool has been released (gate 0 and its removal scheduled).
C33_NoOrphanVoice ==
    \A id \in DOMAIN seq :
        id \notin Pooled => seq[id].gate = 0 /\ seq[id].end # INFINITY

\* C34: every Voice in a Synth's pool is sounding (gate 1): a voice that is
\* released leaves the pool in the same operation, in any play mode, so
\* that off() reaches each voice at most once.
C34_PoolIsSounding == \A id \in Pooled : seq[id].gate = 1


\* ------------------------------------------------------------- End in a frame
\* the position in a frame's log of its first End event (0 if it has none)
FirstEnd(lg) ==
    IF EndsIn(lg) = 0 THEN 0
    ELSE CHOOSE j \in 1..Len(lg) :
            /\ lg[j].event.type = "End"
            /\ \A i \in 1..(j - 1) : lg[i].event.type # "End"

\* C35: once an End event has stopped playback during a frame, no further
\* event of that frame's window is dispatched (no Pitch on a later track or
\* channel triggers a note-on), so that when the frame returns with playing
\* false no Pattern-origin voice is live (all voices of these songs are
\* Pattern-origin).
C35_NothingAfterStop ==
    [][(playing /\ elapsed' > elapsed /\ ~playing') =>
         /\ FirstEnd(log') = Len(log')
         /\ \A id \in DOMAIN seq' : seq'[id].gate = 0]_vars

\* C37: for an End event at tick T, the tick chosen as the loop start is
\* never greater than T: a Loop marker after the End is never selected,
\* whatever the frame length.
C37_LoopStartNotAfterEnd ==
    [][(playing /\ elapsed' > elapsed /\ EndsIn(log') = 1 /\ playing') =>
         tick' <= log'[FirstEnd(log')].event.tick]_vars

\* Songs with a loop and notes between the Loop marker and the End, on the
\* control track's neighbour
SeamSongs ==
    {Song(<<Loop(1), End(3)>>, ch0, ch1) :
        ch0 \in {<<Pitch(2, 60)>>, <<Pitch(0, 60), NoteOff(2)>>},
        ch1 \in {<<>>, <<Pitch(1, 62), NoteOff(2)>>}}

SpecSeam == InitPlay(SeamSongs) /\ [][NextPlay]_vars

\* C36: when an End event causes a loop jump during a frame, every other
\* event of that frame's window whose tick is earlier than the End's tick,
\* on any track and channel, is still dispatched in that frame, before
\* playback continues from the loop marker: no event before the End is lost
\* at the loop seam.
C36_NothingLostAtSeam ==
    [][(playing /\ elapsed' > elapsed /\ EndsIn(log') = 1 /\ looped') =>
         \A id \in EventIds :
            (/\ EventOf(id).tick >= tick
             /\ EventOf(id).tick < log'[FirstEnd(log')].event.tick)
               => Times(id, log') = 1]_vars


\* ------------------------------------------------------------- base pitch
\* C38: the base pitch a voice keeps for pitch-bend recomputation is the
\* pitch of the most recent note_on that set its frequency, SingleTrigger
\* legato included: a note_on with pitch p leaves the voice pooled under its
\* Key with base pitch p, so that a following pitch_bend(channel, b) sets
\* the frequency to midi_hz(p + b), and the note_on itself sets the
\* frequency to midi_hz(p + the bend stored for the channel) (the stored
\* bend applies to Midi Keys).
C38_BasePitchFollowsNoteOn ==
    [][\A k \in Keys, p \in Pitches, pr \in Depths :
          PlayerNoteOn(0, k, p, pr) =>
             LET bend == IF k.origin = "Midi"
                         THEN synths[0].bend_memory[k.channel] ELSE 0
                 v == synths'[0].voices[k]
             IN  /\ v.base_pitch = p
                 /\ seq'[v.event_id].freq = midi_hz(p + bend)
                 /\ \A b \in Bends :
                       k.origin = "Midi" =>
                          pitch_bend(synths'[0], seq', k.channel, b)
                             .seq[v.event_id].freq = midi_hz(p + b)]_vars


\* ------------------------------------------------------------- target kind
\* C39: remove_osc(k) changes nothing but the oscillator index of a
\* surviving mod-matrix entry: the kind of its target (Level, Pitch,
\* FinePitch, Duty, or a target without oscillator), its source and its
\* depth are the same before and after.
C39_RemoveOscKeepsKind ==
    [][(op' # op \/ patch' # patch) /\ op'[1] = "remove_osc"
          /\ op'[2] < Len(patch.oscs) =>
         LET old == patch.mod_matrix
             new == patch'.mod_matrix
             S == Survivors(old, op'[2])
         IN  \A x \in S :
                Rank(S, x) \in DOMAIN new =>
                   /\ new[Rank(S, x)].target[1] = old[x].target[1]
                   /\ new[Rank(S, x)].source = old[x].source
                   /\ new[Rank(S, x)].depth = old[x].depth]_vars

====
